---------------------------- MODULE Spec2Model ----------------------------
(***************************************************************************)
(* Model of the Cetus liquidity rebalance bot.                             *)
(*                                                                         *)
(* Three specifications share the module:                                  *)
(*   SpecCfg   run.sh and loadConfig: how the DRY_RUN / CONFIRM settings   *)
(*             of the shell, the .env file and config.yaml are resolved.   *)
(*   SpecLock  several bot processes racing on the bot.lock file:          *)
(*             acquireLock / checkConcurrency / releaseLock at the         *)
(*             granularity of their file-system calls.                     *)
(*   Spec      one bot working: runLoop, runRebalance and                  *)
(*             executeTransaction, with a clock, the state file, crashes   *)
(*             and restarts.  Its configuration is an input: runRebalance  *)
(*             and executeTransaction receive the BotConfig as a           *)
(*             parameter, so every flag combination is exercised.          *)
(***************************************************************************)
EXTENDS Integers, Sequences, FiniteSets, TLC

VARIABLES
    \* ---- configuration resolution (run.sh, config.ts) ----
    launch,      \* the inputs of a launch: shell environment, arguments, .env, config.yaml
    env,         \* process.env as seen by node (DRY_RUN, CONFIRM)
    cfgPc,       \* "shell" | "node" | "loaded" | "refused"
    config,      \* the BotConfig in use (NoConfig before loadConfig returned)
    \* ---- the lock file and the processes racing on it (riskChecks.ts) ----
    lockFile,    \* content of bot.lock: {} when absent, {pid} when it holds a pid
    lpc,         \* per process: where it stands ("dead" when not running)
    readPid,     \* per process: the pid checkConcurrency read from the file
    touched,     \* per process: it wrote or unlinked the lock file since its launch
    worked,      \* per process: it polled the chain or called the signer since its launch
    sawLive,     \* per process: its liveness probe found the owner alive
    exitCode,    \* per process: "none" while running or never run, else how it ended
    \* ---- one bot at work (index.ts, suiWallet.ts, persistence.ts) ----
    pc,          \* where the bot stands in runLoop / runRebalance / executeTransaction
    now,         \* Date.now(), in milliseconds
    state,       \* runLoop's in-memory BotState
    stateFile,   \* state.json: [kind |-> "absent" | "json" | "corrupt", content |-> BotState]
    loopStart,   \* runLoop's loopStart of the current iteration
    wakeAt,      \* when the pending sleep() timer is due
    poll,        \* what the iteration fetched and decided: positionId, position, decision
    reb,         \* runRebalance's locals
    tx,          \* executeTransaction's frame: operation, attempt, lastErr, result
    iter,        \* what the current iteration did so far (observation only)
    endpoint,    \* the webhook endpoint: "up" (axios.post resolves) or "down" (it rejects)
    pace,        \* when this iteration and the one before began and polled (observation only)
    \* ---- one call of a pure function (utils.ts, strategy.ts) ----
    call,        \* the function called and its arguments
    ret          \* None while the call is pending, else Some(what it returned or threw)

cfgVars == <<launch, env, cfgPc, config>>
lockVars == <<lockFile, lpc, readPid, touched, worked, sawLive, exitCode>>
loopVars == <<pc, now, state, stateFile, loopStart, wakeAt, poll, reb, tx, iter, endpoint, pace>>

fnVars == <<call, ret>>

vars == <<cfgVars, lockVars, loopVars, fnVars>>

(***************************************************************************)
(* Configuration: scripts/run.sh and loadConfig                            *)
(***************************************************************************)
\* An optional value: undefined, null or NaN, or a value.
None == <<>>
Some(v) == <<v>>

Unset == "unset"
NoConfig == [loaded |-> FALSE]

\* Longest argument list given to run.sh.
MaxArgs == 2

EnvValues == {Unset, "true", "false"}
\* What MAX_RETRIES may be in the environment, and maxRetries in config.yaml.
EnvNumbers == {Unset, "0", "2"}
FileNumbers == {None, Some(0), Some(5)}
Flags == {"--dry-run", "--live", "--confirm", "--other"}
ArgLists == UNION {[1..n -> Flags] : n \in 0..MaxArgs}

\* ${VAR:-default}: the default replaces an unset (or empty) variable.
ShellDefault(v, d) == IF v = Unset THEN d ELSE v

RECURSIVE ParseFlags(_, _)
\* run.sh's "for arg in $@; case $arg" loop over the arguments, left to right.
\* e is [DRY_RUN, CONFIRM, bad]; bad records the "Unknown argument" exit.
ParseFlags(args, e) ==
    IF args = <<>> \/ e.bad THEN e
    ELSE LET a == Head(args)
             e2 == CASE a = "--dry-run" -> [e EXCEPT !.DRY_RUN = "true"]
                     [] a = "--live"    -> [e EXCEPT !.DRY_RUN = "false"]
                     [] a = "--confirm" -> [e EXCEPT !.CONFIRM = "true"]
                     [] OTHER           -> [e EXCEPT !.bad = TRUE]
         IN ParseFlags(Tail(args), e2)

\* "set -a; source .env": every variable the file assigns replaces the exported one.
\* (The .env files considered assign DRY_RUN and CONFIRM only.)
SourceDotenv(e, dotenv) ==
    [DRY_RUN |-> IF dotenv.DRY_RUN = Unset THEN e.DRY_RUN ELSE dotenv.DRY_RUN,
     CONFIRM |-> IF dotenv.CONFIRM = Unset THEN e.CONFIRM ELSE dotenv.CONFIRM,
     MAX_RETRIES |-> e.MAX_RETRIES]

\* dotenv.config(): a variable of .env is set only where process.env has none.
DotenvConfig(e, dotenv) ==
    [DRY_RUN |-> IF e.DRY_RUN = Unset THEN dotenv.DRY_RUN ELSE e.DRY_RUN,
     CONFIRM |-> IF e.CONFIRM = Unset THEN dotenv.CONFIRM ELSE e.CONFIRM,
     MAX_RETRIES |-> e.MAX_RETRIES]

\* The result of run.sh up to its live-mode guard.
RunShParsed ==
    ParseFlags(launch.args,
               [DRY_RUN |-> ShellDefault(launch.shellEnv.DRY_RUN, "true"),
                CONFIRM |-> ShellDefault(launch.shellEnv.CONFIRM, "false"),
                bad |-> FALSE])

\* run.sh exits 1: unknown argument, or live mode without confirmation.
RunShRefuses ==
    \/ RunShParsed.bad
    \/ RunShParsed.DRY_RUN # "true" /\ RunShParsed.CONFIRM # "true"

\* scripts/run.sh
RunSh ==
    /\ cfgPc = "shell"
    /\ IF RunShRefuses
       THEN /\ cfgPc' = "refused"
            /\ env' = env
       ELSE /\ cfgPc' = "node"
            /\ env' = SourceDotenv([DRY_RUN |-> RunShParsed.DRY_RUN,
                                    CONFIRM |-> RunShParsed.CONFIRM,
                                    MAX_RETRIES |-> env.MAX_RETRIES], launch.dotenv)
    /\ UNCHANGED <<launch, config>>

\* a || b || c on JavaScript booleans.
Or3(a, b, c) == IF a THEN a ELSE IF b THEN b ELSE c

\* const dryRun = process.env.DRY_RUN === "true" || file.dryRun === true || true
ResolveDryRun(e, file) == Or3(e.DRY_RUN = "true", file.dryRun = "true", TRUE)

\* const confirm = process.env.CONFIRM === "true" || file.confirm === true || false
ResolveConfirm(e, file) == Or3(e.CONFIRM = "true", file.confirm = "true", FALSE)

\* The defaults of maxRetries and minIntervalSeconds; the latter is resolved with
\* neither environment nor file setting it.
DefaultMaxRetries == 3
DefaultMinIntervalSeconds == 60

\* parseInt(text || ""): None is NaN.
ParseInt(text) ==
    CASE text = "0" -> Some(0)
      [] text = "2" -> Some(2)
      [] OTHER -> None

\* A number that || keeps: not undefined, not NaN, not 0.
Truthy(n) == n # None /\ n[1] # 0

\* parseInt(process.env.MAX_RETRIES || "") || file.maxRetries || 3
ResolveMaxRetries(e, file) ==
    IF Truthy(ParseInt(e.MAX_RETRIES)) THEN ParseInt(e.MAX_RETRIES)[1]
    ELSE IF Truthy(file.maxRetries) THEN file.maxRetries[1]
    ELSE DefaultMaxRetries

\* loadConfig(), after dotenv.config() ran at module load.
LoadConfig ==
    /\ cfgPc = "node"
    /\ LET e == DotenvConfig(env, launch.dotenv)
       IN /\ env' = e
          /\ config' = [loaded |-> TRUE,
                        dryRun |-> ResolveDryRun(e, launch.file),
                        confirm |-> ResolveConfirm(e, launch.file),
                        maxRetries |-> ResolveMaxRetries(e, launch.file),
                        minIntervalSeconds |-> DefaultMinIntervalSeconds]
    /\ cfgPc' = "loaded"
    /\ UNCHANGED launch

\* A launch: through run.sh, or node started directly (npm start).
Launches ==
    [entry : {"run.sh"},
     shellEnv : [DRY_RUN : EnvValues, CONFIRM : EnvValues, MAX_RETRIES : EnvNumbers],
     args : ArgLists,
     dotenv : [DRY_RUN : EnvValues, CONFIRM : EnvValues],
     file : [dryRun : EnvValues, confirm : EnvValues, maxRetries : FileNumbers]]
    \cup
    [entry : {"node"},
     shellEnv : [DRY_RUN : EnvValues, CONFIRM : EnvValues, MAX_RETRIES : EnvNumbers],
     args : {<<>>},
     dotenv : [DRY_RUN : EnvValues, CONFIRM : EnvValues],
     file : [dryRun : EnvValues, confirm : EnvValues, maxRetries : FileNumbers]]

\* DRY_RUN=false and CONFIRM=true are what the environment says, or what config.yaml
\* says where the environment is silent.
LiveConfigured ==
    /\ \/ env.DRY_RUN = "false"
       \/ env.DRY_RUN = Unset /\ launch.file.dryRun = "false"
    /\ \/ env.CONFIRM = "true"
       \/ env.CONFIRM = Unset /\ launch.file.confirm = "true"

\* C4: when DRY_RUN=false and CONFIRM=true are configured (environment or config
\* file), loadConfig returns dryRun = false and confirm = true, so that a triggered
\* rebalance can enter the Executing phase and broadcast.
C4_LiveModeReachable ==
    (cfgPc = "loaded" /\ LiveConfigured) => (config.dryRun = FALSE /\ config.confirm = TRUE)

(***************************************************************************)
(* The lock file: acquireLock, checkConcurrency, releaseLock               *)
(***************************************************************************)
\* Number of bot processes that may be launched on the same lock path.
NProcs == 2

Pids == 1..NProcs

\* The pid a stale lock file names: no process has it (process.kill gives ESRCH).
StalePid == 0

Alive(p) == p \in Pids /\ lpc[p] # "dead"

\* runLoop up to acquireLock: loadConfig, validateWalletAddress, validateIds,
\* initWallet, loadState.  A process starts on a pid no running process has.
Start(p) ==
    /\ lpc[p] = "dead"
    /\ lpc' = [lpc EXCEPT ![p] = "exists"]
    /\ readPid' = [readPid EXCEPT ![p] = StalePid]
    /\ touched' = [touched EXCEPT ![p] = FALSE]
    /\ worked' = [worked EXCEPT ![p] = FALSE]
    /\ sawLive' = [sawLive EXCEPT ![p] = FALSE]
    /\ exitCode' = [exitCode EXCEPT ![p] = "none"]
    /\ UNCHANGED lockFile

\* validateWalletAddress / validateIds throw: the entrypoint's catch exits with 1.
StartInvalid(p) ==
    /\ lpc[p] = "dead"
    /\ exitCode' = [exitCode EXCEPT ![p] = "1"]
    /\ readPid' = [readPid EXCEPT ![p] = StalePid]
    /\ touched' = [touched EXCEPT ![p] = FALSE]
    /\ worked' = [worked EXCEPT ![p] = FALSE]
    /\ sawLive' = [sawLive EXCEPT ![p] = FALSE]
    /\ UNCHANGED <<lockFile, lpc>>

\* An error escapes runLoop before its try block: runLoop().catch -> process.exit(1).
\* No releaseLock runs on this path.
ExitFatal(p) ==
    /\ lpc' = [lpc EXCEPT ![p] = "dead"]
    /\ exitCode' = [exitCode EXCEPT ![p] = "1"]

\* checkConcurrency: fs.existsSync(lockPath)
LockExists(p) ==
    /\ lpc[p] = "exists"
    /\ lpc' = [lpc EXCEPT ![p] = IF lockFile = {} THEN "write" ELSE "read"]
    /\ UNCHANGED <<lockFile, readPid, touched, worked, sawLive, exitCode>>

\* checkConcurrency: parseInt(fs.readFileSync(lockPath)); ENOENT when the file is gone.
\* A file naming the reader's own pid is not probed.
LockRead(p) ==
    /\ lpc[p] = "read"
    /\ IF lockFile = {}
       THEN /\ ExitFatal(p)
            /\ UNCHANGED readPid
       ELSE \E pid \in lockFile :
               /\ readPid' = [readPid EXCEPT ![p] = pid]
               /\ lpc' = [lpc EXCEPT ![p] = IF pid # p THEN "probe" ELSE "write"]
               /\ UNCHANGED exitCode
    /\ UNCHANGED <<lockFile, touched, worked, sawLive>>

\* A checkConcurrency that treats a live owner like a dead one and goes on to unlink.
OnLiveOwnerSteal(p) ==
    /\ sawLive' = [sawLive EXCEPT ![p] = TRUE]
    /\ lpc' = [lpc EXCEPT ![p] = "unlink"]
    /\ UNCHANGED <<lockFile, touched, exitCode>>

\* process.kill(pid, 0) succeeded: the Error thrown in the try block is caught,
\* is not ESRCH, and is rethrown out of acquireLock.
OnLiveOwner(p) ==
    /\ ExitFatal(p)
    /\ sawLive' = [sawLive EXCEPT ![p] = TRUE]
    /\ UNCHANGED <<lockFile, touched>>

\* A checkConcurrency that gives up on a stale file.
OnDeadOwnerFail(p) ==
    /\ ExitFatal(p)
    /\ UNCHANGED <<lockFile, touched, sawLive>>

\* process.kill(pid, 0) threw ESRCH: the stale file is to be unlinked.
OnDeadOwner(p) ==
    /\ lpc' = [lpc EXCEPT ![p] = "unlink"]
    /\ UNCHANGED <<lockFile, touched, sawLive, exitCode>>

\* checkConcurrency: the liveness probe of the pid read from the file.
LockProbe(p) ==
    /\ lpc[p] = "probe"
    /\ IF Alive(readPid[p]) THEN OnLiveOwner(p) ELSE OnDeadOwner(p)
    /\ UNCHANGED <<readPid, worked>>

\* checkConcurrency: fs.unlinkSync(lockPath) of the stale file; ENOENT when already gone.
LockUnlink(p) ==
    /\ lpc[p] = "unlink"
    /\ IF lockFile = {}
       THEN /\ ExitFatal(p)
            /\ UNCHANGED <<lockFile, touched>>
       ELSE /\ lockFile' = {}
            /\ touched' = [touched EXCEPT ![p] = TRUE]
            /\ lpc' = [lpc EXCEPT ![p] = "write"]
            /\ UNCHANGED exitCode
    /\ UNCHANGED <<readPid, worked, sawLive>>

\* acquireLock: fs.writeFileSync(lockPath, String(process.pid)); then runLoop installs
\* the signal handlers and enters its loop.
LockWrite(p) ==
    /\ lpc[p] = "write"
    /\ lockFile' = {p}
    /\ touched' = [touched EXCEPT ![p] = TRUE]
    /\ lpc' = [lpc EXCEPT ![p] = "running"]
    /\ UNCHANGED <<readPid, worked, sawLive, exitCode>>

\* A bot that polls before acquireLock has returned.
WorkUnlocked(p) ==
    /\ lpc[p] # "dead"
    /\ worked' = [worked EXCEPT ![p] = TRUE]
    /\ UNCHANGED <<lockFile, lpc, readPid, touched, sawLive, exitCode>>

\* One iteration of the loop: polls the chain and may call the signer.
Work(p) ==
    /\ lpc[p] = "running"
    /\ worked' = [worked EXCEPT ![p] = TRUE]
    /\ UNCHANGED <<lockFile, lpc, readPid, touched, sawLive, exitCode>>

\* A shutdown handler that exits without releaseLock.
SignalExit(p) ==
    /\ lpc[p] = "running"
    /\ lpc' = [lpc EXCEPT ![p] = "exit0"]
    /\ UNCHANGED <<lockFile, readPid, touched, worked, sawLive, exitCode>>

\* SIGINT / SIGTERM with the handler installed: handleShutdown starts releaseLock
\* with fs.existsSync(lockPath).
Signal(p) ==
    /\ lpc[p] = "running"
    /\ lpc' = [lpc EXCEPT ![p] = IF lockFile = {} THEN "exit0" ELSE "release"]
    /\ UNCHANGED <<lockFile, readPid, touched, worked, sawLive, exitCode>>

\* An error escapes the while loop: the finally block starts releaseLock with
\* fs.existsSync(lockPath); the entrypoint's catch then exits with 1.
LoopThrows(p) ==
    /\ lpc[p] = "running"
    /\ lpc' = [lpc EXCEPT ![p] = IF lockFile = {} THEN "exit1" ELSE "releaseF"]
    /\ UNCHANGED <<lockFile, readPid, touched, worked, sawLive, exitCode>>

\* A releaseLock that leaves the file in place.
ReleaseKeep(p) ==
    /\ lpc[p] \in {"release", "releaseF"}
    /\ lpc' = [lpc EXCEPT ![p] = IF lpc[p] = "release" THEN "exit0" ELSE "exit1"]
    /\ UNCHANGED <<lockFile, touched, exitCode, readPid, worked, sawLive>>

\* releaseLock: fs.unlinkSync(lockPath), whatever pid the file holds; ENOENT
\* (the file vanished since existsSync) is an uncaught exception.
ReleaseUnlink(p) ==
    /\ lpc[p] \in {"release", "releaseF"}
    /\ IF lockFile = {}
       THEN /\ ExitFatal(p)
            /\ UNCHANGED <<lockFile, touched>>
       ELSE /\ lockFile' = {}
            /\ touched' = [touched EXCEPT ![p] = TRUE]
            /\ lpc' = [lpc EXCEPT ![p] = IF lpc[p] = "release" THEN "exit0" ELSE "exit1"]
            /\ UNCHANGED exitCode
    /\ UNCHANGED <<readPid, worked, sawLive>>

\* runLoop().catch: console.error; process.exit(1)
ExitOne(p) ==
    /\ lpc[p] = "exit1"
    /\ lpc' = [lpc EXCEPT ![p] = "dead"]
    /\ exitCode' = [exitCode EXCEPT ![p] = "1"]
    /\ UNCHANGED <<lockFile, readPid, touched, worked, sawLive>>

\* A shutdown handler that releases the lock and returns: the loop goes on.
ExitZeroResumes(p) ==
    /\ lpc[p] = "exit0"
    /\ lpc' = [lpc EXCEPT ![p] = "running"]
    /\ UNCHANGED <<lockFile, readPid, touched, worked, sawLive, exitCode>>

\* handleShutdown: process.exit(0)
ExitZero(p) ==
    /\ lpc[p] = "exit0"
    /\ lpc' = [lpc EXCEPT ![p] = "dead"]
    /\ exitCode' = [exitCode EXCEPT ![p] = "0"]
    /\ UNCHANGED <<lockFile, readPid, touched, worked, sawLive>>

\* The process is killed (SIGKILL, power loss, or a signal before the handlers are
\* installed): nothing is cleaned up.
Crash(p) ==
    /\ lpc[p] # "dead"
    /\ lpc' = [lpc EXCEPT ![p] = "dead"]
    /\ exitCode' = [exitCode EXCEPT ![p] = "killed"]
    /\ UNCHANGED <<lockFile, readPid, touched, worked, sawLive>>

(***************************************************************************)
(* Tick math (utils.ts).  A price is represented by its logarithm to       *)
(* TICK_BASE in hundredths of a tick, so that tickToPrice and priceToTick   *)
(* are exact integer arithmetic; the floating-point rounding of Math.log   *)
(* and Math.pow is not reproduced.                                         *)
(***************************************************************************)
\* Units of log-price per tick.
Scale == 100

MIN_TICK == -443636
MAX_TICK == 443636

\* Math.floor(a / b) and Math.ceil(a / b) for b > 0.
FloorDiv(a, b) == IF a >= 0 THEN a \div b ELSE -((-a + b - 1) \div b)
CeilDiv(a, b) == -FloorDiv(-a, b)

Max(a, b) == IF a >= b THEN a ELSE b
Min(a, b) == IF a <= b THEN a ELSE b

tickToPrice(tick) == tick * Scale

\* clampTick without the alignment of its two bounds.
clampTickUnaligned(tick, tickSpacing) == Max(MIN_TICK, Min(MAX_TICK, tick))

clampTick(tick, tickSpacing) ==
    LET minAligned == CeilDiv(MIN_TICK, tickSpacing) * tickSpacing
        maxAligned == FloorDiv(MAX_TICK, tickSpacing) * tickSpacing
    IN Max(minAligned, Min(maxAligned, tick))

\* priceToTick rounding to the nearest multiple whatever the mode asked for.
priceToTickNearest(logPrice, tickSpacing, round) ==
    clampTick(FloorDiv(2 * logPrice + Scale * tickSpacing, 2 * Scale * tickSpacing)
                 * tickSpacing,
              tickSpacing)

\* priceToTick on a log-price; Math.round(x) is Math.floor(x + 0.5).
priceToTick(logPrice, tickSpacing, round) ==
    LET tick == CASE round = "floor" -> FloorDiv(logPrice, Scale * tickSpacing) * tickSpacing
                  [] round = "ceil" -> CeilDiv(logPrice, Scale * tickSpacing) * tickSpacing
                  [] OTHER -> FloorDiv(2 * logPrice + Scale * tickSpacing,
                                       2 * Scale * tickSpacing) * tickSpacing
    IN clampTick(tick, tickSpacing)

\* The strategy settings in use are loadConfig's defaults, priceBandPct = 1.5 and
\* driftTriggerPct = 0.5, as log-prices:
\*   Scale * log(1 - 1.5/100) / log(1.0001) = -15114.39..  (rounded away from zero,
\*   Scale * log(1 + 1.5/100) / log(1.0001) =  14889.35..   which floor / ceil of a
\*   whole log-price cannot tell from the exact value)
\*   Scale * log(1 + 0.5/100) / log(1.0001) =   4987.79..
\*   Scale * log(1 - 0.5/100) / log(1.0001) =  -5012.79..
LogLowerBand == -15115
LogUpperBand == 14890
LogDriftAbove == 4987
LogDriftBelow == -5013

\* priceBandPct, in tenths of a percent: none, 0.5, 1, the default 1.5, and 3.
DefaultPriceBand == 15

Bands == {0, 5, 10, DefaultPriceBand, 30}

\* Scale * log(1 - priceBandPct/100) / log(1.0001), rounded down, and
\* Scale * log(1 + priceBandPct/100) / log(1.0001), rounded up.
LogLowerOffset(priceBandPct) ==
    CASE priceBandPct = 0 -> 0
      [] priceBandPct = 5 -> -5013
      [] priceBandPct = 10 -> -10051
      [] priceBandPct = DefaultPriceBand -> LogLowerBand
      [] priceBandPct = 30 -> -30461

\* The upper offsets with the bands in reverse order.
LogUpperOffsetReversed(priceBandPct) ==
    CASE priceBandPct = 0 -> 29561
      [] priceBandPct = 5 -> LogUpperBand
      [] priceBandPct = 10 -> 9951
      [] priceBandPct = DefaultPriceBand -> 4988
      [] priceBandPct = 30 -> 0

LogUpperOffset(priceBandPct) ==
    CASE priceBandPct = 0 -> 0
      [] priceBandPct = 5 -> 4988
      [] priceBandPct = 10 -> 9951
      [] priceBandPct = DefaultPriceBand -> LogUpperBand
      [] priceBandPct = 30 -> 29561

\* computeNewTickRange without its "Invalid tick range" check.
computeNewTickRangeUnchecked(logPrice, priceBandPct, tickSpacing) ==
    LET tickLower == priceToTick(logPrice + LogLowerOffset(priceBandPct), tickSpacing,
                                 "floor")
        tickUpper == priceToTick(logPrice + LogUpperOffset(priceBandPct), tickSpacing,
                                 "ceil")
    IN [thrown |-> FALSE, tickLower |-> tickLower, tickUpper |-> tickUpper]

\* computeNewTickRange: [thrown |-> TRUE] stands for its "Invalid tick range" error.
computeNewTickRange(logPrice, priceBandPct, tickSpacing) ==
    LET tickLower == priceToTick(logPrice + LogLowerOffset(priceBandPct), tickSpacing,
                                 "floor")
        tickUpper == priceToTick(logPrice + LogUpperOffset(priceBandPct), tickSpacing,
                                 "ceil")
    IN [thrown |-> tickLower >= tickUpper, tickLower |-> tickLower, tickUpper |-> tickUpper]

\* Math.round((tickLower + tickUpper) / 2)
centerTick(tickLower, tickUpper) == FloorDiv(tickLower + tickUpper + 1, 2)

\* Math.abs(driftPct(...)) > config.driftTriggerPct, decided on log-prices.
DriftExceeded(logPrice, tickLower, tickUpper) ==
    LET d == logPrice - tickToPrice(centerTick(tickLower, tickUpper))
    IN d > LogDriftAbove \/ d <= LogDriftBelow

\* isTickInRange with the bounds themselves out of range.
isTickInRangeStrict(tick, tickLower, tickUpper) == tick > tickLower /\ tick < tickUpper

isTickInRange(tick, tickLower, tickUpper) == tick >= tickLower /\ tick <= tickUpper

\* The defaults of backoffMs' parameters baseMs and maxMs.
DefaultBaseMs == 1000
DefaultMaxMs == 30000

\* A backoff that keeps doubling.
backoffMsUncapped(attempt, baseMs, maxMs) == baseMs * (2 ^ attempt)

\* Math.min(baseMs * Math.pow(2, attempt), maxMs)
backoffMs(attempt, baseMs, maxMs) == Min(baseMs * (2 ^ attempt), maxMs)

(***************************************************************************)
(* Strategy (strategy.ts)                                                  *)
(***************************************************************************)
\* evaluateStrategy; thrown when computeNewTickRange throws.  Of its config
\* argument it reads priceBandPct and driftTriggerPct, never rebalanceMode.
evaluateStrategy(pool, position) ==
    LET inRange == isTickInRange(pool.currentTick, position.tickLower, position.tickUpper)
        range == computeNewTickRange(pool.logPrice, DefaultPriceBand, pool.tickSpacing)
        fires == ~inRange \/ DriftExceeded(pool.logPrice, position.tickLower, position.tickUpper)
    IN IF fires
       THEN [thrown |-> range.thrown,
             shouldRebalance |-> TRUE,
             trigger |-> IF ~inRange THEN "price_out_of_range" ELSE "drift_exceeded",
             newTickLower |-> Some(range.tickLower),
             newTickUpper |-> Some(range.tickUpper)]
       ELSE [thrown |-> FALSE,
             shouldRebalance |-> FALSE,
             trigger |-> "none",
             newTickLower |-> None,
             newTickUpper |-> None]

NoDecision ==
    [thrown |-> FALSE, shouldRebalance |-> FALSE, trigger |-> "none",
     newTickLower |-> None, newTickUpper |-> None]

Abs(x) == IF x >= 0 THEN x ELSE -x

\* The width of a double's significand: 53 bits in the source's number type, taken
\* narrower here so that integers past it are within reach.
MantissaBits == 7

\* Number(n) of a non-negative bigint: n itself up to 2^MantissaBits, beyond it the
\* nearest multiple of the spacing of doubles at n, ties to the even significand.
Number(n) ==
    IF n < 2 ^ MantissaBits THEN n
    ELSE LET k == CHOOSE j \in 1..8 : 2 ^ (MantissaBits + j - 1) <= n
                                       /\ n < 2 ^ (MantissaBits + j)
             ulp == 2 ^ k
             q == n \div ulp
             r == n % ulp
         IN IF 2 * r < ulp \/ (2 * r = ulp /\ q % 2 = 0) THEN q * ulp ELSE (q + 1) * ulp

\* computeSwapNeeded without its skip of tiny swaps.
computeSwapNeededAnySize(balanceA, balanceB, ratio, price) ==
    LET n == ratio[1]
        d == ratio[2]
        pn == price[1]
        pd == price[2]
        bA == Number(balanceA)
        bB == Number(balanceB)
        num == (bA * d - n * bB) * pd
        den == d * pd + n * pn
        tiny == FALSE
        sellA == num \div den
        sellB == (Abs(num) * pn) \div (den * pd)
    IN IF n <= 0 \/ bA + bB = 0 THEN None
       ELSE IF tiny THEN None
       ELSE IF num > 0
            THEN (IF sellA = 0 THEN None ELSE Some([swapAtoB |-> TRUE, swapAmount |-> sellA]))
            ELSE (IF sellB = 0 THEN None ELSE Some([swapAtoB |-> FALSE, swapAmount |-> sellB]))

\* computeSwapNeeded: ratio = <<n, d>> is targetRatioAtoB = n/d, price = <<pn, pd>>
\* is currentPrice = pn/pd.  None is the null result.  The balances are converted
\* as Number does; the arithmetic on them is exact (a double rounds it further).
\*   x = (bA - ratio * bB) / (1 + ratio * price) = num / den
computeSwapNeeded(balanceA, balanceB, ratio, price) ==
    LET n == ratio[1]
        d == ratio[2]
        pn == price[1]
        pd == price[2]
        bA == Number(balanceA)
        bB == Number(balanceB)
        num == (bA * d - n * bB) * pd
        den == d * pd + n * pn
        \* |x| < 0.05 * (bA + bB / price)
        tiny == 20 * pn * Abs(num) < den * (bA * pn + bB * pd)
        sellA == num \div den
        sellB == (Abs(num) * pn) \div (den * pd)
    IN IF n <= 0 \/ bA + bB = 0 THEN None
       ELSE IF tiny THEN None
       ELSE IF num > 0
            THEN (IF sellA = 0 THEN None ELSE Some([swapAtoB |-> TRUE, swapAmount |-> sellA]))
            ELSE (IF sellB = 0 THEN None ELSE Some([swapAtoB |-> FALSE, swapAmount |-> sellB]))

\* Math.sqrt(tickToPrice(tick)) = 1.0001 ^ (tick / 2) in ten-thousandths, for the ticks
\* that bound the ranges computeTokenAmounts is applied to.
SqrtScale == 10000

RangeTicks == {-200, -60, 0, 60, 200}

SqrtPriceAt(tick) ==
    CASE tick = -200 -> 9901
      [] tick = -60 -> 9970
      [] tick = 0 -> SqrtScale
      [] tick = 60 -> 10030
      [] tick = 200 -> 10100

\* computeTokenAmounts with its two branches the other way round.
computeTokenAmountsSwapped(liquidity, sqrtCurrent, tickLower, tickUpper) ==
    LET sqrtLower == SqrtPriceAt(tickLower)
        sqrtUpper == SqrtPriceAt(tickUpper)
        currentPrice == sqrtCurrent * sqrtCurrent
    IN IF currentPrice >= sqrtUpper * sqrtUpper
       THEN [amountA |-> <<liquidity * SqrtScale * (sqrtUpper - sqrtLower),
                           sqrtLower * sqrtUpper>>,
             amountB |-> <<0, 1>>]
       ELSE IF currentPrice <= sqrtLower * sqrtLower
       THEN [amountA |-> <<0, 1>>,
             amountB |-> <<liquidity * (sqrtUpper - sqrtLower), SqrtScale>>]
       ELSE [amountA |-> <<liquidity * SqrtScale * (sqrtUpper - sqrtCurrent),
                           sqrtCurrent * sqrtUpper>>,
             amountB |-> <<liquidity * (sqrtCurrent - sqrtLower), SqrtScale>>]

\* computeTokenAmounts on exact rationals: the current price is given by its square
\* root in ten-thousandths, an amount is <<numerator, denominator>>.
\*   L * (1 / sqrtLower - 1 / sqrtUpper) = L * (sqrtUpper - sqrtLower) / (sqrtLower * sqrtUpper)
computeTokenAmounts(liquidity, sqrtCurrent, tickLower, tickUpper) ==
    LET sqrtLower == SqrtPriceAt(tickLower)
        sqrtUpper == SqrtPriceAt(tickUpper)
        currentPrice == sqrtCurrent * sqrtCurrent
    IN IF currentPrice <= sqrtLower * sqrtLower
       THEN [amountA |-> <<liquidity * SqrtScale * (sqrtUpper - sqrtLower),
                           sqrtLower * sqrtUpper>>,
             amountB |-> <<0, 1>>]
       ELSE IF currentPrice >= sqrtUpper * sqrtUpper
       THEN [amountA |-> <<0, 1>>,
             amountB |-> <<liquidity * (sqrtUpper - sqrtLower), SqrtScale>>]
       ELSE [amountA |-> <<liquidity * SqrtScale * (sqrtUpper - sqrtCurrent),
                           sqrtCurrent * sqrtUpper>>,
             amountB |-> <<liquidity * (sqrtCurrent - sqrtLower), SqrtScale>>]

(***************************************************************************)
(* Persistence (persistence.ts)                                            *)
(***************************************************************************)
DEFAULT_STATE ==
    [lastRebalanceTime |-> None, lastPositionId |-> None, lastTickLower |-> None,
     lastTickUpper |-> None, lastLiquidity |-> None, totalRebalances |-> 0,
     lastTxDigest |-> None]

AbsentFile == [kind |-> "absent", content |-> DEFAULT_STATE]
CorruptFile == [kind |-> "corrupt", content |-> DEFAULT_STATE]
\* A file that exists and that fs.readFileSync cannot read.
UnreadableFile == [kind |-> "unreadable", content |-> DEFAULT_STATE]
JsonFile(s) == [kind |-> "json", content |-> s]

\* loadState: the parsed file over the defaults; the defaults when the file is
\* absent, or fs.readFileSync or JSON.parse throws.
loadState(file) == IF file.kind = "json" THEN file.content ELSE DEFAULT_STATE

\* updateStateAfterRebalance; time is Date.now().
\* liquidity.toString(): the decimal text of a bigint.
DecimalString(n) == <<"decimal", n>>

\* An update that records everything but the count.
updateStateKeepingCount(s, positionId, tickLower, tickUpper, liquidity, txDigest, time) ==
    [lastRebalanceTime |-> Some(time),
     lastPositionId |-> Some(positionId),
     lastTickLower |-> Some(tickLower),
     lastTickUpper |-> Some(tickUpper),
     lastLiquidity |-> Some(DecimalString(liquidity)),
     totalRebalances |-> s.totalRebalances,
     lastTxDigest |-> Some(txDigest)]

updateStateAfterRebalance(s, positionId, tickLower, tickUpper, liquidity, txDigest, time) ==
    [lastRebalanceTime |-> Some(time),
     lastPositionId |-> Some(positionId),
     lastTickLower |-> Some(tickLower),
     lastTickUpper |-> Some(tickUpper),
     lastLiquidity |-> Some(DecimalString(liquidity)),
     totalRebalances |-> s.totalRebalances + 1,
     lastTxDigest |-> Some(txDigest)]

(***************************************************************************)
(* The bot at work: runLoop, runRebalance (index.ts), executeTransaction   *)
(* (suiWallet.ts).  The chain, the SDK and the signer are the environment: *)
(* every fetch returns any value of a small set, every external call may   *)
(* throw, every broadcast ends in success, a non-success status or an      *)
(* exception.                                                              *)
(***************************************************************************)
\* Largest maxRetries and minIntervalSeconds configured, the last second of the
\* clock, and the number of recorded rebalances after which no new one is triggered.
MaxRebalances == 2
MaxRetries == 1
MaxInterval == 2
MaxTime == 4

\* telegramWebhook says whether a webhook URL is configured.
Configs ==
    [loaded : {TRUE}, dryRun : BOOLEAN, confirm : BOOLEAN,
     maxRetries : 0..MaxRetries, minIntervalSeconds : 1..MaxInterval,
     telegramWebhook : {TRUE}]

Steps == {"collect", "remove", "swap", "add"}

\* What fetchPoolState may return: the price at the centre of the position, drifted
\* inside it, and outside it; and outside it in a pool whose tick spacing leaves no
\* two aligned ticks for a range.
PoolStates ==
    {[currentTick |-> 0, logPrice |-> 0, price |-> <<1, 1>>, tickSpacing |-> 10],
     [currentTick |-> 100, logPrice |-> 10000, price |-> <<101, 100>>, tickSpacing |-> 10],
     [currentTick |-> 300, logPrice |-> 30000, price |-> <<103, 100>>, tickSpacing |-> 10],
     [currentTick |-> 300, logPrice |-> 30000, price |-> <<103, 100>>,
      tickSpacing |-> 500000]}

\* What fetchPositionState may return.
Positions ==
    {[positionId |-> "0xpos", tickLower |-> -200, tickUpper |-> 200, liquidity |-> 1000]}

\* What getTokenBalances may return: <<balanceA, balanceB>>.
Balances == {<<100, 100>>, <<100, 0>>}

\* targetB > 0 ? targetA / targetB : 1 for computeTokenAmounts' three cases.  The
\* square-root arithmetic of the in-range case is not reproduced: its ratio is any
\* of two positive values.
TargetRatios(pool, liquidity, tickLower, tickUpper) ==
    IF liquidity = 0 \/ pool.logPrice <= tickToPrice(tickLower) THEN {<<1, 1>>}
    ELSE IF pool.logPrice >= tickToPrice(tickUpper) THEN {<<0, 1>>}
    ELSE {<<1, 1>>, <<3, 1>>}

NoPoll == [position |-> [positionId |-> "", tickLower |-> 0, tickUpper |-> 0, liquidity |-> 0],
           decision |-> NoDecision]
\* (runRebalance's lastDigest is assigned and never read: it is left out.)
NoReb == [swapInfo |-> None, newBal |-> None, addAmounts |-> None, result |-> None]
\* calls counts the signAndExecuteTransaction calls of the frame and sleeps its
\* backoff sleeps; gasOver says that
\* the gas estimate of the transaction (computationCost + storageCost -
\* storageRebate) exceeds config.gasBudget.
NoTx == [op |-> "none", caller |-> "none", gasOver |-> FALSE, attempt |-> 0,
         lastErr |-> None, calls |-> 0, sleeps |-> 0, result |-> None, thrown |-> None]
\* What an iteration of the loop has done so far: the BotState and the state file it
\* began with, the steps started, returned (done), broadcast with success (ok),
\* simulated, aborted at the confirmation gate, the notify calls made with what
\* became of each, and whether evaluateStrategy threw (computeNewTickRange's error).
NoIter ==
    [before |-> None, triggered |-> FALSE, started |-> {}, done |-> {}, ok |-> {},
     sims |-> {}, aborted |-> {}, planned |-> None, planAfter |-> None,
     balAfter |-> None, alerts |-> <<>>, delivery |-> <<>>, failed |-> None,
     rangeError |-> FALSE]

\* notify: returns at once without a webhook URL; else awaits sendNotification and,
\* when that rejects, logs a warning.  It returns normally in all three cases.
NotifyOutcome ==
    IF ~config.telegramWebhook THEN "no_endpoint"
    ELSE IF endpoint = "up" THEN "delivered"
    ELSE "failed"

\* No iteration has begun.
NoPace == [start |-> None, poll |-> None, prevStart |-> None, prevPoll |-> None]

DryRunDigest == <<"dry-run">>
AbortedDigest == <<"aborted-no-confirm">>

\* An exception inside the loop body lands in runLoop's catch (index.ts line 387), out
\* of the scope of the locals of the try block and of runRebalance; one out of an
\* executeTransaction called on its own goes to that caller.
Throw ==
    /\ pc' = IF tx.caller = "direct" THEN "threw" ELSE "catch"
    /\ poll' = NoPoll
    /\ reb' = NoReb

\* A loop that polls at once, whatever the recorded time of the last rebalance.
LoopTopNoLimit ==
    /\ pc = "loopTop"
    /\ loopStart' = now
    /\ pc' = "fetchPool"
    /\ iter' = [iter EXCEPT !.before = Some(<<state, stateFile>>)]
    /\ UNCHANGED <<now, state, stateFile, wakeAt, poll, reb, tx>>

\* while (true) { const loopStart = Date.now(); ... rate limit by MIN_INTERVAL_SECONDS
LoopTop ==
    /\ pc = "loopTop"
    /\ loopStart' = now
    /\ LET last == IF state.lastRebalanceTime = None THEN 0 ELSE state.lastRebalanceTime[1]
           elapsed == now - last
           remaining == config.minIntervalSeconds * 1000 - elapsed
       IN IF remaining > 0 /\ last # 0
          THEN pc' = "rateSleep" /\ wakeAt' = now + remaining
          ELSE pc' = "fetchPool" /\ wakeAt' = wakeAt
    /\ iter' = [iter EXCEPT !.before = Some(<<state, stateFile>>)]
    /\ UNCHANGED <<now, state, stateFile, poll, reb, tx>>

\* await sleep(remaining): the timer fires no earlier than it is due.
RateSleepDone ==
    /\ pc = "rateSleep"
    /\ now >= wakeAt
    /\ pc' = "fetchPool"
    /\ wakeAt' = 0
    /\ UNCHANGED <<now, state, stateFile, loopStart, poll, reb, tx, iter>>

\* await cetusClient.fetchPoolState()
FetchPool ==
    /\ pc = "fetchPool"
    /\ \E ok \in BOOLEAN : pc' = IF ok THEN "fetchPos" ELSE "catch"
    /\ UNCHANGED <<now, state, stateFile, loopStart, wakeAt, poll, reb, tx, iter>>

\* A loop that runs runRebalance on a trigger without looking at config.dryRun.
EvaluateAlways(ok, pool, position) ==
    LET decision == evaluateStrategy(pool, position)
    IN IF ~ok \/ decision.thrown
       THEN /\ pc' = "catch"
            /\ iter' = [iter EXCEPT !.rangeError = ok]
            /\ poll' = poll
       ELSE /\ poll' = [position |-> position, decision |-> decision]
            /\ IF decision.shouldRebalance /\ decision.newTickLower # None
                  /\ decision.newTickUpper # None
               THEN /\ iter' = [iter EXCEPT !.triggered = TRUE,
                                            !.alerts = Append(@, "rebalance_start"),
                                            !.delivery = Append(@, NotifyOutcome)]
                    /\ pc' = "collect"
               ELSE /\ iter' = iter
                    /\ pc' = "iterEnd"

\* A loop that goes on to rebalance with the range of a computeNewTickRange that
\* threw.
EvaluateDespiteThrow(ok, pool, position) ==
    LET decision == evaluateStrategy(pool, position)
    IN IF ~ok
       THEN /\ pc' = "catch"
            /\ UNCHANGED <<poll, iter>>
       ELSE /\ poll' = [position |-> position, decision |-> decision]
            /\ IF decision.shouldRebalance /\ decision.newTickLower # None
                  /\ decision.newTickUpper # None
               THEN /\ iter' = [iter EXCEPT !.triggered = TRUE,
                                            !.rangeError = decision.thrown,
                                            !.alerts = Append(@, "rebalance_start"),
                                            !.delivery = Append(@, NotifyOutcome)]
                    /\ pc' = IF config.dryRun THEN "iterEnd" ELSE "collect"
               ELSE /\ iter' = iter
                    /\ pc' = "iterEnd"

\* await fetchPositionState(); evaluateStrategy; on a trigger notify(rebalance_start)
\* and then, by config.dryRun, the "[DRY-RUN] Would rebalance" log or runRebalance.
\* The pool state is the one FetchPool returned; it is used here only.
Evaluate(ok, pool, position) ==
    LET decision == evaluateStrategy(pool, position)
    IN IF ~ok \/ decision.thrown
       THEN /\ pc' = "catch"
            /\ iter' = [iter EXCEPT !.rangeError = ok]
            /\ poll' = poll
       ELSE /\ poll' = [position |-> position, decision |-> decision]
            /\ IF decision.shouldRebalance /\ decision.newTickLower # None
                  /\ decision.newTickUpper # None
               THEN /\ iter' = [iter EXCEPT !.triggered = TRUE,
                                            !.alerts = Append(@, "rebalance_start"),
                                            !.delivery = Append(@, NotifyOutcome)]
                    /\ pc' = IF config.dryRun THEN "iterEnd" ELSE "collect"
               ELSE /\ iter' = iter
                    /\ pc' = "iterEnd"

FetchPositionAndEvaluate ==
    /\ pc = "fetchPos"
    /\ state.totalRebalances < MaxRebalances
    /\ \E ok \in BOOLEAN, pool \in PoolStates, position \in Positions :
           Evaluate(ok, pool, position)
    /\ UNCHANGED <<now, state, stateFile, loopStart, wakeAt, reb, tx>>

\* runRebalance, one step: build the step's transaction and call executeTransaction.
\* add-liquidity is built with the balances fetched last.
StepBegin(s) ==
    /\ pc = s
    /\ \E built \in BOOLEAN, over \in BOOLEAN :
          IF built
          THEN /\ pc' = "execTx"
               /\ tx' = [NoTx EXCEPT !.op = s, !.caller = "runRebalance",
                                     !.gasOver = over]
               /\ iter' = [iter EXCEPT !.started = @ \cup {s}]
               /\ reb' = IF s = "add" THEN [reb EXCEPT !.addAmounts = reb.newBal] ELSE reb
               /\ poll' = poll
          ELSE /\ Throw
               /\ UNCHANGED <<tx, iter>>
    /\ UNCHANGED <<now, state, stateFile, loopStart, wakeAt>>

\* A runRebalance that plans the swap right after collect-fees.
AfterStepSkip(op) ==
    CASE op = "collect" -> "plan"
      [] op = "remove" -> "plan"
      [] op = "swap" -> "fetchBal"
      [] op = "add" -> "update"

\* Where runRebalance goes on when the executeTransaction of step op has returned.
AfterStep(op) ==
    CASE op = "collect" -> "remove"
      [] op = "remove" -> "plan"
      [] op = "swap" -> "fetchBal"
      [] op = "add" -> "update"

\* executeTransaction returns { digest }: to runRebalance, which returns the digest
\* of add; or to a direct caller.  Its frame ends with the call; calls is the number
\* of signAndExecuteTransaction calls it made.
Return(digest, calls) ==
    /\ tx' = [NoTx EXCEPT !.op = tx.op, !.caller = tx.caller, !.calls = calls,
                           !.sleeps = tx.sleeps, !.result = Some(digest)]
    /\ poll' = poll
    /\ IF tx.caller = "direct"
       THEN pc' = "returned" /\ reb' = reb
       ELSE /\ pc' = AfterStep(tx.op)
            /\ reb' = IF tx.op = "add" THEN [reb EXCEPT !.result = Some(digest)] ELSE reb

\* executeTransaction throws err.
Raise(err) ==
    /\ tx' = [NoTx EXCEPT !.op = tx.op, !.caller = tx.caller, !.calls = tx.calls,
                           !.sleeps = tx.sleeps,
                           !.thrown = err]
    /\ Throw

\* executeTransaction, config.dryRun: tx.build and dryRunTransactionBlock, no signing.
ExecDryRun ==
    /\ pc = "execTx"
    /\ config.dryRun
    /\ \E simulated \in BOOLEAN :
          IF simulated
          THEN /\ Return(DryRunDigest, 0)
               /\ iter' = [iter EXCEPT !.sims = @ \cup {tx.op}, !.done = @ \cup {tx.op}]
          ELSE /\ Raise(Some(<<"throws", 0>>))
               /\ iter' = [iter EXCEPT !.failed = Some(tx.op)]
    /\ UNCHANGED <<now, state, stateFile, loopStart, wakeAt>>

\* A gate that lets the call through to the retry loop.
ConfirmGateOpen ==
    /\ pc' = "txAttempt"
    /\ UNCHANGED <<tx, reb, poll, iter>>

\* The confirmation gate of executeTransaction: live mode without config.confirm.
ConfirmGate ==
    /\ Return(AbortedDigest, 0)
    /\ iter' = [iter EXCEPT !.aborted = @ \cup {tx.op}, !.done = @ \cup {tx.op}]

ExecNoConfirm ==
    /\ pc = "execTx"
    /\ ~config.dryRun /\ ~config.confirm
    /\ ConfirmGate
    /\ UNCHANGED <<now, state, stateFile, loopStart, wakeAt>>

\* executeTransaction, confirmed live mode: enter the retry loop with attempt = 0.
ExecLive ==
    /\ pc = "execTx"
    /\ ~config.dryRun /\ config.confirm
    /\ pc' = "txAttempt"
    /\ UNCHANGED <<now, state, stateFile, loopStart, wakeAt, poll, reb, tx, iter>>

\* A loop condition that admits one attempt more.
RetryAllowedOneMore(attempt) == attempt <= config.maxRetries + 1

\* The loop condition of executeTransaction's for statement.
RetryAllowed(attempt) == attempt <= config.maxRetries

Outcomes == {"success", "failure_status", "throws"}

\* One pass of the for loop: signAndExecuteTransaction; a status other than success
\* throws into the same catch as an exception of the call; the catch keeps the error
\* and sleeps backoffMs(attempt).
TxAttempt ==
    /\ pc = "txAttempt"
    /\ RetryAllowed(tx.attempt)
    /\ \E outcome \in Outcomes :
          IF outcome = "success"
          THEN /\ Return(<<"digest", tx.op, tx.attempt>>, tx.calls + 1)
               /\ iter' = [iter EXCEPT !.ok = @ \cup {tx.op}, !.done = @ \cup {tx.op}]
               /\ wakeAt' = wakeAt
          ELSE /\ tx' = [tx EXCEPT !.calls = @ + 1, !.sleeps = @ + 1,
                                   !.lastErr = Some(<<outcome, tx.attempt>>)]
               /\ wakeAt' = now + backoffMs(tx.attempt, DefaultBaseMs, DefaultMaxMs)
               /\ pc' = "txBackoff"
               /\ UNCHANGED <<iter, reb, poll>>
    /\ UNCHANGED <<now, state, stateFile, loopStart>>

\* await sleep(delay) is over: attempt++.
TxBackoffDone ==
    /\ pc = "txBackoff"
    /\ now >= wakeAt
    /\ tx' = [tx EXCEPT !.attempt = @ + 1]
    /\ pc' = "txAttempt"
    /\ wakeAt' = 0
    /\ UNCHANGED <<now, state, stateFile, loopStart, poll, reb, iter>>

\* An executeTransaction that returns a digest when its attempts are used up.
TxExhaustedSwallow ==
    /\ pc = "txAttempt"
    /\ ~RetryAllowed(tx.attempt)
    /\ Return(<<"digest", tx.op, tx.attempt>>, tx.calls)
    /\ iter' = [iter EXCEPT !.failed = Some(tx.op), !.done = @ \cup {tx.op}]
    /\ UNCHANGED <<now, state, stateFile, loopStart, wakeAt>>

\* The for loop is over: throw lastErr.
TxExhausted ==
    /\ pc = "txAttempt"
    /\ ~RetryAllowed(tx.attempt)
    /\ Raise(tx.lastErr)
    /\ iter' = [iter EXCEPT !.failed = Some(tx.op)]
    /\ UNCHANGED <<now, state, stateFile, loopStart, wakeAt>>

\* runRebalance step 3: fetchPoolState, getTokenBalances, computeTokenAmounts,
\* computeSwapNeeded.
PlanSwap ==
    /\ pc = "plan"
    /\ \E ok \in BOOLEAN, pool \in PoolStates, bal \in Balances :
          IF ok
          THEN \E ratio \in TargetRatios(pool, poll.position.liquidity,
                                         poll.decision.newTickLower[1],
                                         poll.decision.newTickUpper[1]) :
                  LET swapInfo == computeSwapNeeded(bal[1], bal[2], ratio, pool.price)
                  IN /\ reb' = [reb EXCEPT !.swapInfo = swapInfo]
                     /\ iter' = [iter EXCEPT !.planned = Some(swapInfo # None),
                                             !.planAfter = Some(iter.done)]
                     /\ pc' = IF swapInfo # None THEN "swap" ELSE "fetchBal"
                     /\ poll' = poll
          ELSE /\ Throw
               /\ iter' = iter
    /\ UNCHANGED <<now, state, stateFile, loopStart, wakeAt, tx>>

\* runRebalance step 4: getTokenBalances again.
FetchBalances ==
    /\ pc = "fetchBal"
    /\ \E ok \in BOOLEAN, bal \in Balances :
          IF ok
          THEN /\ reb' = [reb EXCEPT !.newBal = Some(bal)]
               /\ iter' = [iter EXCEPT !.balAfter = Some(iter.done)]
               /\ pc' = "add"
               /\ poll' = poll
          ELSE /\ Throw
               /\ iter' = iter
    /\ UNCHANGED <<now, state, stateFile, loopStart, wakeAt, tx>>

\* saveState: fs.writeFileSync either writes the JSON text, or throws leaving the
\* file as it was, or throws leaving it truncated.
SaveOutcomes == {"written", "throws", "throws_truncated"}

saveState(s, outcome) ==
    CASE outcome = "written" -> JsonFile(s)
      [] outcome = "throws" -> stateFile
      [] outcome = "throws_truncated" -> CorruptFile

\* A loop that sends the success alert before it saves the state.
UpdateAndSaveAlertFirst ==
    /\ pc = "update"
    /\ state' = updateStateAfterRebalance(state, poll.position.positionId,
                                          poll.decision.newTickLower[1],
                                          poll.decision.newTickUpper[1],
                                          poll.position.liquidity, reb.result[1], now)
    /\ iter' = [iter EXCEPT !.alerts = Append(@, "rebalance_success"),
                            !.delivery = Append(@, NotifyOutcome)]
    /\ \E outcome \in SaveOutcomes :
          /\ stateFile' = saveState(state', outcome)
          /\ pc' = IF outcome = "written" THEN "iterEnd" ELSE "catch"
    /\ poll' = NoPoll
    /\ reb' = NoReb
    /\ tx' = NoTx
    /\ UNCHANGED <<now, loopStart, wakeAt>>

\* runRebalance returned txDigest: state = updateStateAfterRebalance(...);
\* saveState(STATE_FILE, state); notify(rebalance_success).
UpdateAndSave ==
    /\ pc = "update"
    /\ state' = updateStateAfterRebalance(state, poll.position.positionId,
                                          poll.decision.newTickLower[1],
                                          poll.decision.newTickUpper[1],
                                          poll.position.liquidity, reb.result[1], now)
    /\ \E outcome \in SaveOutcomes :
          /\ stateFile' = saveState(state', outcome)
          /\ IF outcome = "written"
             THEN /\ iter' = [iter EXCEPT !.alerts = Append(@, "rebalance_success"),
                                           !.delivery = Append(@, NotifyOutcome)]
                  /\ pc' = "iterEnd"
             ELSE /\ iter' = iter
                  /\ pc' = "catch"
    /\ poll' = NoPoll
    /\ reb' = NoReb
    /\ tx' = NoTx
    /\ UNCHANGED <<now, loopStart, wakeAt>>

\* A catch block that ends the process.
CatchExit ==
    /\ pc = "catch"
    /\ pc' = "down"
    /\ UNCHANGED <<now, state, stateFile, loopStart, wakeAt, poll, reb, tx, iter>>

\* A catch block out of which a failed notification escapes, and with it runLoop.
CatchNotifyThrows ==
    /\ pc = "catch"
    /\ iter' = [iter EXCEPT !.alerts = Append(@, "rebalance_failure"),
                            !.delivery = Append(@, NotifyOutcome)]
    /\ pc' = IF NotifyOutcome = "failed" THEN "down" ELSE "iterEnd"
    /\ UNCHANGED <<now, state, stateFile, loopStart, wakeAt, poll, reb, tx>>

\* catch (err) { log.error; notify(rebalance_failure) }
Catch ==
    /\ pc = "catch"
    /\ iter' = [iter EXCEPT !.alerts = Append(@, "rebalance_failure"),
                            !.delivery = Append(@, NotifyOutcome)]
    /\ pc' = "iterEnd"
    /\ UNCHANGED <<now, state, stateFile, loopStart, wakeAt, poll, reb, tx>>

\* A loop that goes round without the sleep at its end.
IterEndNoSleep ==
    /\ pc = "iterEnd"
    /\ wakeAt' = now
    /\ pc' = "endSleep"
    /\ loopStart' = 0
    /\ poll' = NoPoll
    /\ reb' = NoReb
    /\ tx' = NoTx
    /\ iter' = NoIter
    /\ UNCHANGED <<now, state, stateFile>>

\* const wait = Math.max(0, minIntervalSeconds * 1000 - (Date.now() - loopStart)); sleep(wait)
\* The iteration's locals and what was observed of it end here.
IterEnd ==
    /\ pc = "iterEnd"
    /\ wakeAt' = now + Max(0, config.minIntervalSeconds * 1000 - (now - loopStart))
    /\ pc' = "endSleep"
    /\ loopStart' = 0
    /\ poll' = NoPoll
    /\ reb' = NoReb
    /\ tx' = NoTx
    /\ iter' = NoIter
    /\ UNCHANGED <<now, state, stateFile>>

EndSleepDone ==
    /\ pc = "endSleep"
    /\ now >= wakeAt
    /\ pc' = "loopTop"
    /\ wakeAt' = 0
    /\ UNCHANGED <<now, state, stateFile, loopStart, poll, reb, tx, iter>>

\* Time passes, a second at a time, while the bot awaits a timer or an external
\* call, or is not running.
Awaiting == {"rateSleep", "endSleep", "txBackoff", "fetchPool", "txAttempt", "down"}

Tick ==
    /\ pc \in Awaiting
    /\ now < MaxTime * 1000
    /\ now' = now + 1000
    /\ UNCHANGED <<pc, state, stateFile, loopStart, wakeAt, poll, reb, tx, iter>>

\* The process dies (kill, power loss): its memory is gone, the state file stays.
\* Within fs.writeFileSync the file may be left truncated.
Killed ==
    /\ pc \notin {"down", "returned", "threw"}
    /\ tx.caller # "direct"
    /\ pc' = "down"
    /\ stateFile' \in (IF pc = "update" THEN {stateFile, CorruptFile} ELSE {stateFile})
    /\ state' = DEFAULT_STATE
    /\ loopStart' = 0
    /\ wakeAt' = 0
    /\ poll' = NoPoll
    /\ reb' = NoReb
    /\ tx' = NoTx
    /\ iter' = NoIter
    /\ UNCHANGED now

\* A start that gives up on a state file it cannot parse.
RestartBlocked ==
    /\ pc = "down"
    /\ state' = loadState(stateFile)
    /\ pc' = IF stateFile.kind = "json" THEN "loopTop" ELSE "threw"
    /\ UNCHANGED <<now, stateFile, loopStart, wakeAt, poll, reb, tx, iter>>

\* The bot is started again: runLoop's let state = loadState(STATE_FILE).
Restart ==
    /\ pc = "down"
    /\ state' = loadState(stateFile)
    /\ pc' = "loopTop"
    /\ UNCHANGED <<now, stateFile, loopStart, wakeAt, poll, reb, tx, iter>>

\* The webhook endpoint goes down or comes back.
EndpointFlip ==
    /\ endpoint' = IF endpoint = "up" THEN "down" ELSE "up"
    /\ UNCHANGED <<pc, now, state, stateFile, loopStart, wakeAt, poll, reb, tx, iter>>

PriorState ==
    [lastRebalanceTime |-> Some(1000), lastPositionId |-> Some("0xpos"),
     lastTickLower |-> Some(-200), lastTickUpper |-> Some(200), lastLiquidity |-> Some(DecimalString(1000)),
     totalRebalances |-> 1, lastTxDigest |-> Some(<<"digest", "add", 0>>)]

\* A bot is launched with some configuration, on no state file, on the file an
\* earlier run left a moment ago or on a file it cannot read; or executeTransaction
\* is called on its own.
InitLoop ==
    /\ config \in Configs
    /\ now = 1000
    /\ \/ /\ pc = "loopTop"
          /\ stateFile \in {AbsentFile, JsonFile(PriorState), UnreadableFile}
          /\ tx = NoTx
       \/ /\ pc = "execTx"
          /\ stateFile = AbsentFile
          /\ \E over \in BOOLEAN :
                tx = [NoTx EXCEPT !.op = "collect", !.caller = "direct", !.gasOver = over]
    /\ state = loadState(stateFile)
    /\ loopStart = 0
    /\ wakeAt = 0
    /\ poll = NoPoll
    /\ reb = NoReb
    /\ iter = NoIter
    /\ endpoint = "up"
    /\ pace = NoPace

LoopIdle ==
    /\ pc = "down"
    /\ now = 1000
    /\ state = DEFAULT_STATE
    /\ stateFile = AbsentFile
    /\ loopStart = 0
    /\ wakeAt = 0
    /\ poll = NoPoll
    /\ reb = NoReb
    /\ tx = NoTx
    /\ iter = NoIter
    /\ endpoint = "up"
    /\ pace = NoPace

(***************************************************************************)
(* The pure functions called on their own: one call per behaviour, its     *)
(* arguments drawn from sets that hold the boundary cases.                 *)
(***************************************************************************)
\* How far, in ticks and in hundredths of a tick, the arguments go past a boundary;
\* the largest attempt number handed to backoffMs.
MaxNudge == 2
MaxAttempt == 12

Nudges == (-MaxNudge)..MaxNudge

TickSpacings == {1, 2, 10, 60, 200, 500000}

Roundings == {"floor", "ceil", "nearest"}

\* BotConfig.rebalanceMode, handed to evaluateStrategy in its config argument.
RebalanceModes == {"price_band", "drift"}

\* Log-prices: around 1.0, around multiples of the spacings, around the drift
\* thresholds of a position centred at 0, and around and beyond the tick bounds.
LogPrices ==
    UNION {{base + n : n \in Nudges} :
              base \in {0, 1000, -1000, 6000, -6000, 20000, -20000,
                        LogDriftAbove, LogDriftBelow,
                        MAX_TICK * Scale, MIN_TICK * Scale,
                        MAX_TICK * Scale - LogUpperBand, MIN_TICK * Scale - LogLowerBand,
                        2 * MAX_TICK * Scale, 2 * MIN_TICK * Scale}}

\* Positions (tickLower < tickUpper) and current ticks on and next to their bounds.
EvalPositions ==
    {[tickLower |-> -200, tickUpper |-> 200, liquidity |-> 1000],
     [tickLower |-> -60, tickUpper |-> 60, liquidity |-> 1000],
     [tickLower |-> 0, tickUpper |-> 1, liquidity |-> 0]}

EvalPools ==
    UNION {[currentTick : {pos.tickLower + n : n \in Nudges}
                            \cup {pos.tickUpper + n : n \in Nudges},
            logPrice : LogPrices,
            tickSpacing : TickSpacings] : pos \in EvalPositions}

\* The prices a pool can have, and the pool at such a price: its current tick is
\* the tick of its price, floor(log(price) / log(1.0001)).
PoolPrices == {p \in LogPrices : p >= MIN_TICK * Scale /\ p <= MAX_TICK * Scale}

PoolAt(logPrice, tickSpacing) ==
    [currentTick |-> FloorDiv(logPrice, Scale), logPrice |-> logPrice,
     tickSpacing |-> tickSpacing]

\* Balances around the 5% tolerance at ratio 1 and price 1 (11 : 9 is on it);
\* target ratios: negative, zero (all B), 1/2, 1, 3; prices below, at and above 1,
\* each as <<numerator, denominator>>.
SwapBalances == {0, 1, 9, 10, 11, 100}
SwapRatios == {<<-1, 1>>, <<0, 1>>, <<1, 2>>, <<1, 1>>, <<3, 1>>}
SwapPrices == {<<1, 2>>, <<1, 1>>, <<101, 100>>, <<2, 1>>}

\* Balances past 2^MantissaBits, where not every integer is a double, with target
\* ratios far from 1 (a position near a bound of its range).
LargeBalances == {0, 2 * 2 ^ MantissaBits + 6}
LopsidedRatios == {<<1, 1000>>, <<1000, 1>>}

\* Square roots of current prices: on and next to those of the range ticks.
SqrtPrices == {SqrtPriceAt(t) + n : t \in RangeTicks, n \in Nudges}

Calls ==
    [fn : {"priceToTick"}, logPrice : LogPrices, tickSpacing : TickSpacings,
     round : Roundings]
    \cup [fn : {"computeNewTickRange"}, logPrice : LogPrices, priceBandPct : Bands,
          tickSpacing : TickSpacings]
    \cup {c \in [fn : {"computeNewTickRange twice"}, logPrice : LogPrices,
                  narrow : Bands, wide : Bands, tickSpacing : TickSpacings] :
              c.narrow < c.wide}
    \cup [fn : {"evaluateStrategy"}, pool : EvalPools, position : EvalPositions,
          rebalanceMode : RebalanceModes]
    \cup [fn : {"evaluateStrategy twice"}, logPrice : PoolPrices,
          tickSpacing : TickSpacings, position : EvalPositions]
    \cup [fn : {"updateStateAfterRebalance"}, state : {DEFAULT_STATE, PriorState},
          positionId : {"0xpos", "0xnew"}, tickLower : {-200, -150},
          tickUpper : {150, 200}, liquidity : {0, 1000},
          txDigest : {<<"digest", "add", 0>>, <<"digest", "add", 1>>},
          time : {1000, 2000}]
    \cup [fn : {"computeSwapNeeded"}, balanceA : SwapBalances, balanceB : SwapBalances,
          ratio : SwapRatios, price : SwapPrices]
    \cup [fn : {"computeSwapNeeded"}, balanceA : LargeBalances, balanceB : LargeBalances,
          ratio : LopsidedRatios, price : {<<1, 1>>}]
    \cup [fn : {"backoffMs"}, attempt : 0..MaxAttempt, baseMs : {1, 500, DefaultBaseMs},
          maxMs : {DefaultBaseMs, 4000, DefaultMaxMs}]
    \cup {c \in [fn : {"computeTokenAmounts"}, liquidity : {0, 1, 100},
                  sqrtCurrent : SqrtPrices, tickLower : RangeTicks,
                  tickUpper : RangeTicks] : c.tickLower < c.tickUpper}

NoCall == [fn |-> "none"]

\* slippageBps, which computeSwapNeeded never reads, is left out.
CallComputeSwapNeeded ==
    /\ call.fn = "computeSwapNeeded" /\ ret = None
    /\ ret' = Some(computeSwapNeeded(call.balanceA, call.balanceB, call.ratio, call.price))
    /\ UNCHANGED call

CallPriceToTick ==
    /\ call.fn = "priceToTick" /\ ret = None
    /\ ret' = Some(priceToTick(call.logPrice, call.tickSpacing, call.round))
    /\ UNCHANGED call

CallComputeNewTickRange ==
    /\ call.fn = "computeNewTickRange" /\ ret = None
    /\ ret' = Some(computeNewTickRange(call.logPrice, call.priceBandPct,
                                       call.tickSpacing))
    /\ UNCHANGED call

\* Two calls for the same price and spacing, as in the test "wider band -> larger
\* range": ret is <<narrow's result, wide's result>>.
CallComputeNewTickRangeTwice ==
    /\ call.fn = "computeNewTickRange twice" /\ ret = None
    /\ ret' = Some(<<computeNewTickRange(call.logPrice, call.narrow, call.tickSpacing),
                     computeNewTickRange(call.logPrice, call.wide, call.tickSpacing)>>)
    /\ UNCHANGED call

CallEvaluateStrategy ==
    /\ call.fn = "evaluateStrategy" /\ ret = None
    /\ ret' = Some(evaluateStrategy(call.pool, call.position))
    /\ UNCHANGED call

\* Two polls at the same price, as in two iterations of runLoop with a rebalance
\* between them: the second evaluation is of the position opened on the range the
\* first one proposed.  ret is <<first decision, Some(second decision)>>, or
\* <<first decision, None>> when the first asked for no rebalance or threw.
CallEvaluateStrategyTwice ==
    /\ call.fn = "evaluateStrategy twice" /\ ret = None
    /\ LET pool == PoolAt(call.logPrice, call.tickSpacing)
           first == evaluateStrategy(pool, call.position)
       IN ret' = Some(<<first,
                        IF first.shouldRebalance /\ ~first.thrown
                        THEN Some(evaluateStrategy(pool,
                                     [tickLower |-> first.newTickLower[1],
                                      tickUpper |-> first.newTickUpper[1],
                                      liquidity |-> call.position.liquidity]))
                        ELSE None>>)
    /\ UNCHANGED call

CallBackoffMs ==
    /\ call.fn = "backoffMs" /\ ret = None
    /\ ret' = Some(backoffMs(call.attempt, call.baseMs, call.maxMs))
    /\ UNCHANGED call

CallComputeTokenAmounts ==
    /\ call.fn = "computeTokenAmounts" /\ ret = None
    /\ ret' = Some(computeTokenAmounts(call.liquidity, call.sqrtCurrent, call.tickLower,
                                       call.tickUpper))
    /\ UNCHANGED call

\* time is what Date.now() returns within the call.
CallUpdateStateAfterRebalance ==
    /\ call.fn = "updateStateAfterRebalance" /\ ret = None
    /\ ret' = Some(updateStateAfterRebalance(call.state, call.positionId, call.tickLower,
                                             call.tickUpper, call.liquidity,
                                             call.txDigest, call.time))
    /\ UNCHANGED call

InitFn ==
    /\ call \in Calls
    /\ ret = None

FnIdle ==
    /\ call = NoCall
    /\ ret = None

InitCfg ==
    /\ launch \in Launches
    /\ env = launch.shellEnv
    /\ cfgPc = IF launch.entry = "run.sh" THEN "shell" ELSE "node"
    /\ config = NoConfig

\* The lock path before any bot runs: no file, or a stale file of a dead process.
InitLock ==
    /\ lockFile \in {{}, {StalePid}}
    /\ lpc = [p \in Pids |-> "dead"]
    /\ readPid = [p \in Pids |-> StalePid]
    /\ touched = [p \in Pids |-> FALSE]
    /\ worked = [p \in Pids |-> FALSE]
    /\ sawLive = [p \in Pids |-> FALSE]
    /\ exitCode = [p \in Pids |-> "none"]

\* The parts of the state a specification does not exercise.
LaunchIdle ==
    /\ launch = [entry |-> "node"]
    /\ env = [DRY_RUN |-> Unset, CONFIRM |-> Unset, MAX_RETRIES |-> Unset]
    /\ cfgPc = "loaded"

CfgIdle ==
    /\ LaunchIdle
    /\ config = NoConfig

LockIdle ==
    /\ InitLock
    /\ lockFile = {}

NextCfg ==
    \/ RunSh /\ UNCHANGED <<lockVars, loopVars, fnVars>>
    \/ LoadConfig /\ UNCHANGED <<lockVars, loopVars, fnVars>>

\* A launch, with no lock activity and no loop running.
InitSpecCfg == InitCfg /\ LockIdle /\ LoopIdle /\ FnIdle

SpecCfg == InitSpecCfg /\ [][NextCfg]_vars

NextLock ==
    \E p \in Pids :
        \/ Start(p) /\ UNCHANGED <<cfgVars, loopVars, fnVars>>
        \/ StartInvalid(p) /\ UNCHANGED <<cfgVars, loopVars, fnVars>>
        \/ LockExists(p) /\ UNCHANGED <<cfgVars, loopVars, fnVars>>
        \/ LockRead(p) /\ UNCHANGED <<cfgVars, loopVars, fnVars>>
        \/ LockProbe(p) /\ UNCHANGED <<cfgVars, loopVars, fnVars>>
        \/ LockUnlink(p) /\ UNCHANGED <<cfgVars, loopVars, fnVars>>
        \/ LockWrite(p) /\ UNCHANGED <<cfgVars, loopVars, fnVars>>
        \/ Work(p) /\ UNCHANGED <<cfgVars, loopVars, fnVars>>
        \/ Signal(p) /\ UNCHANGED <<cfgVars, loopVars, fnVars>>
        \/ ReleaseUnlink(p) /\ UNCHANGED <<cfgVars, loopVars, fnVars>>
        \/ ExitZero(p) /\ UNCHANGED <<cfgVars, loopVars, fnVars>>
        \/ LoopThrows(p) /\ UNCHANGED <<cfgVars, loopVars, fnVars>>
        \/ ExitOne(p) /\ UNCHANGED <<cfgVars, loopVars, fnVars>>
        \/ Crash(p) /\ UNCHANGED <<cfgVars, loopVars, fnVars>>

\* The lock path before any bot runs, nothing else in motion.
InitSpecLock == InitLock /\ CfgIdle /\ LoopIdle /\ FnIdle

SpecLock == InitSpecLock /\ [][NextLock]_vars

NextFn ==
    \/ CallPriceToTick /\ UNCHANGED <<cfgVars, lockVars, loopVars>>
    \/ CallComputeNewTickRange /\ UNCHANGED <<cfgVars, lockVars, loopVars>>
    \/ CallComputeNewTickRangeTwice /\ UNCHANGED <<cfgVars, lockVars, loopVars>>
    \/ CallEvaluateStrategy /\ UNCHANGED <<cfgVars, lockVars, loopVars>>
    \/ CallEvaluateStrategyTwice /\ UNCHANGED <<cfgVars, lockVars, loopVars>>
    \/ CallUpdateStateAfterRebalance /\ UNCHANGED <<cfgVars, lockVars, loopVars>>
    \/ CallComputeSwapNeeded /\ UNCHANGED <<cfgVars, lockVars, loopVars>>
    \/ CallComputeTokenAmounts /\ UNCHANGED <<cfgVars, lockVars, loopVars>>
    \/ CallBackoffMs /\ UNCHANGED <<cfgVars, lockVars, loopVars>>

\* One call of a pure function, nothing else in motion.
InitSpecFn == InitFn /\ CfgIdle /\ LockIdle /\ LoopIdle

SpecFn == InitSpecFn /\ [][NextFn]_vars

\* What the bot at work leaves alone.
rest == <<launch, env, cfgPc, config, lockVars, fnVars, endpoint, pace>>

Next ==
    \/ LoopTop /\ UNCHANGED rest
    \/ RateSleepDone /\ UNCHANGED rest
    \/ FetchPool /\ UNCHANGED rest
    \/ FetchPositionAndEvaluate /\ UNCHANGED rest
    \/ \E s \in Steps : StepBegin(s) /\ UNCHANGED rest
    \/ ExecDryRun /\ UNCHANGED rest
    \/ ExecNoConfirm /\ UNCHANGED rest
    \/ ExecLive /\ UNCHANGED rest
    \/ TxAttempt /\ UNCHANGED rest
    \/ TxBackoffDone /\ UNCHANGED rest
    \/ TxExhausted /\ UNCHANGED rest
    \/ PlanSwap /\ UNCHANGED rest
    \/ FetchBalances /\ UNCHANGED rest
    \/ UpdateAndSave /\ UNCHANGED rest
    \/ Catch /\ UNCHANGED rest
    \/ IterEnd /\ UNCHANGED rest
    \/ EndSleepDone /\ UNCHANGED rest
    \/ Tick /\ UNCHANGED rest
    \/ Killed /\ UNCHANGED rest
    \/ Restart /\ UNCHANGED rest

\* One bot starting, its configuration loaded, the lock not contended.
Init == InitLoop /\ LaunchIdle /\ LockIdle /\ FnIdle

Spec == Init /\ [][Next]_vars

\* The bot left to run: nobody kills it, every await completes, the timers fire.
\* (runLoop does not reach executeTransaction in dryRun mode.)
NextLive ==
    \/ LoopTop /\ UNCHANGED rest
    \/ RateSleepDone /\ UNCHANGED rest
    \/ FetchPool /\ UNCHANGED rest
    \/ FetchPositionAndEvaluate /\ UNCHANGED rest
    \/ \E s \in Steps : StepBegin(s) /\ UNCHANGED rest
    \/ ExecNoConfirm /\ UNCHANGED rest
    \/ ExecLive /\ UNCHANGED rest
    \/ TxAttempt /\ UNCHANGED rest
    \/ TxBackoffDone /\ UNCHANGED rest
    \/ TxExhausted /\ UNCHANGED rest
    \/ PlanSwap /\ UNCHANGED rest
    \/ FetchBalances /\ UNCHANGED rest
    \/ UpdateAndSave /\ UNCHANGED rest
    \/ Catch /\ UNCHANGED rest
    \/ IterEnd /\ UNCHANGED rest
    \/ EndSleepDone /\ UNCHANGED rest
    \/ Tick /\ UNCHANGED rest

\* A bot started on no state file, with no retries or with the largest budget.
InitLive ==
    /\ Init
    /\ pc = "loopTop"
    /\ stateFile = AbsentFile
    /\ config.maxRetries \in {0, MaxRetries}

SpecLive == InitLive /\ [][NextLive]_vars /\ WF_vars(NextLive)

\* The times of the loop: an iteration begins with const loopStart = Date.now() and
\* polls when it calls fetchPoolState, at once or after the rate-limit sleep.
Paced ==
    pace' = IF pc = "loopTop"
            THEN [start |-> Some(now), poll |-> IF pc' = "fetchPool" THEN Some(now) ELSE None,
                  prevStart |-> pace.start, prevPoll |-> pace.poll]
            ELSE IF pc = "rateSleep" /\ pc' = "fetchPool"
            THEN [pace EXCEPT !.poll = Some(now)]
            ELSE pace

others == <<launch, env, cfgPc, config, lockVars, fnVars, endpoint>>

\* A live bot with no retries, confirmed or not.
PaceConfigs ==
    [loaded : {TRUE}, dryRun : {FALSE}, confirm : BOOLEAN, maxRetries : {0},
     minIntervalSeconds : 1..MaxInterval, telegramWebhook : {TRUE}]

\* The bot left to run, the times of its iterations on record.
NextPace ==
    \/ LoopTop /\ Paced /\ UNCHANGED others
    \/ RateSleepDone /\ Paced /\ UNCHANGED others
    \/ FetchPool /\ Paced /\ UNCHANGED others
    \/ FetchPositionAndEvaluate /\ Paced /\ UNCHANGED others
    \/ \E s \in Steps : StepBegin(s) /\ Paced /\ UNCHANGED others
    \/ ExecNoConfirm /\ Paced /\ UNCHANGED others
    \/ ExecLive /\ Paced /\ UNCHANGED others
    \/ TxAttempt /\ Paced /\ UNCHANGED others
    \/ TxBackoffDone /\ Paced /\ UNCHANGED others
    \/ TxExhausted /\ Paced /\ UNCHANGED others
    \/ PlanSwap /\ Paced /\ UNCHANGED others
    \/ FetchBalances /\ Paced /\ UNCHANGED others
    \/ UpdateAndSave /\ Paced /\ UNCHANGED others
    \/ Catch /\ Paced /\ UNCHANGED others
    \/ IterEnd /\ Paced /\ UNCHANGED others
    \/ EndSleepDone /\ Paced /\ UNCHANGED others
    \/ Tick /\ Paced /\ UNCHANGED others

\* The bot starts on no state file or on the file an earlier run left a moment ago.
InitPace ==
    /\ config \in PaceConfigs
    /\ now = 1000
    /\ pc = "loopTop"
    /\ stateFile \in {AbsentFile, JsonFile(PriorState)}
    /\ state = loadState(stateFile)
    /\ loopStart = 0
    /\ wakeAt = 0
    /\ poll = NoPoll
    /\ reb = NoReb
    /\ tx = NoTx
    /\ iter = NoIter
    /\ endpoint = "up"
    /\ pace = NoPace
    /\ LaunchIdle
    /\ LockIdle
    /\ FnIdle

SpecPace == InitPace /\ [][NextPace]_vars

\* One configuration of a live, confirmed bot, with and without a webhook URL and
\* with and without --dry-run.
NotifyConfigs ==
    [loaded : {TRUE}, dryRun : BOOLEAN, confirm : {TRUE}, maxRetries : {0},
     minIntervalSeconds : {1}, telegramWebhook : BOOLEAN]

\* The bot left to run while the webhook endpoint comes and goes.
NextNotify ==
    \/ LoopTop /\ UNCHANGED rest
    \/ RateSleepDone /\ UNCHANGED rest
    \/ FetchPool /\ UNCHANGED rest
    \/ FetchPositionAndEvaluate /\ UNCHANGED rest
    \/ \E s \in Steps : StepBegin(s) /\ UNCHANGED rest
    \/ ExecLive /\ UNCHANGED rest
    \/ TxAttempt /\ UNCHANGED rest
    \/ TxBackoffDone /\ UNCHANGED rest
    \/ TxExhausted /\ UNCHANGED rest
    \/ PlanSwap /\ UNCHANGED rest
    \/ FetchBalances /\ UNCHANGED rest
    \/ UpdateAndSave /\ UNCHANGED rest
    \/ Catch /\ UNCHANGED rest
    \/ IterEnd /\ UNCHANGED rest
    \/ EndSleepDone /\ UNCHANGED rest
    \/ Tick /\ UNCHANGED rest
    \/ EndpointFlip /\ UNCHANGED <<cfgVars, lockVars, fnVars, pace>>

InitNotify ==
    /\ config \in NotifyConfigs
    /\ endpoint \in {"up", "down"}
    /\ pace = NoPace
    /\ now = 1000
    /\ pc = "loopTop"
    /\ stateFile = AbsentFile
    /\ state = loadState(stateFile)
    /\ loopStart = 0
    /\ wakeAt = 0
    /\ poll = NoPoll
    /\ reb = NoReb
    /\ tx = NoTx
    /\ iter = NoIter
    /\ LaunchIdle
    /\ LockIdle
    /\ FnIdle

SpecNotify == InitNotify /\ [][NextNotify]_vars

\* C1: at most one live process at a time has returned from acquireLock and runs
\* the poll/execute loop, whatever the interleaving of the acquireLock steps.
C1_MutualExclusion ==
    Cardinality({p \in Pids : lpc[p] \in {"running", "release", "releaseF",
                                            "exit0", "exit1"}}) <= 1

\* C2: an acquireLock that finds the lock file naming another, live process fails
\* (exit code 1) in a step that leaves the lock file as it is, by a process that
\* has neither written nor unlinked the lock file and has neither polled nor
\* called the signer.
C2_LiveOwnerRefused ==
    [][\A p \in Pids :
          (sawLive'[p] /\ ~sawLive[p]) =>
              /\ lockFile' = lockFile
              /\ lpc'[p] = "dead" /\ exitCode'[p] = "1"
              /\ ~touched'[p] /\ ~worked'[p]]_vars

\* A process was refused while the lock file names a running owner.
C2_Witness ==
    \E p \in Pids, q \in Pids :
        /\ p # q
        /\ sawLive[p] /\ exitCode[p] = "1"
        /\ lockFile = {q} /\ lpc[q] = "running" /\ worked[q]

\* The steps of a rebalance up to and including op.
UpTo(op) ==
    CASE op = "collect" -> {"collect"}
      [] op = "remove" -> {"collect", "remove"}
      [] op = "swap" -> {"collect", "remove", "swap"}
      [] op = "add" -> Steps

\* The iteration runs inside runLoop (not an executeTransaction called on its own).
InLoop == iter.before # None

\* The BotState, in memory and in the state file, is as the iteration found it.
StateUntouched == <<state, stateFile>> = iter.before[1]

\* Every step of the rebalance went out to the chain and came back with success.
AllBroadcast ==
    /\ {"collect", "remove", "add"} \subseteq iter.ok
    /\ iter.planned = Some(TRUE) => "swap" \in iter.ok

\* C3: whatever the flags and the outcomes of the external calls, the BotState in
\* memory and in the state file differs from what the iteration began with only
\* if collect-fees, remove-liquidity, the swap where one was planned, and
\* add-liquidity were all broadcast and reported success in that iteration.
C3_StateChangesOnlyAfterBroadcast ==
    (InLoop /\ ~StateUntouched) => AllBroadcast

\* C5: with dryRun false and confirm false, executeTransaction never calls
\* signAndExecuteTransaction nor simulates, every operation it was given returned
\* the aborted digest, nothing was thrown, and the caller goes on: runRebalance to
\* its next statement, a direct caller to the returned result.
C5_ConfirmationGate ==
    (config.loaded /\ ~config.dryRun /\ ~config.confirm) =>
        /\ tx.calls = 0 /\ iter.ok = {} /\ iter.sims = {}
        /\ pc \notin {"txAttempt", "txBackoff", "threw"}
        /\ iter.done = iter.aborted
        /\ tx.result # None => tx.result = Some(AbortedDigest)
        /\ tx.thrown = None /\ iter.failed = None
        /\ tx.caller = "direct" => pc \in {"execTx", "returned"}

\* collect-fees was stopped at the gate and runRebalance is at remove-liquidity.
C5_Witness ==
    /\ ~config.dryRun /\ ~config.confirm
    /\ iter.aborted = {"collect"} /\ pc = "remove"
    /\ tx.result = Some(AbortedDigest)

C6_Inv ==
    (config.loaded /\ config.dryRun) =>
        /\ tx.calls = 0 /\ iter.ok = {} /\ iter.aborted = {}
        /\ pc \notin {"txAttempt", "txBackoff"}
        /\ tx.result \in {None, Some(DryRunDigest)}
        /\ InLoop => /\ iter.started = {} /\ iter.done = {}
                     /\ StateUntouched
                     /\ iter.triggered => iter.alerts = <<"rebalance_start">>

C6_Step ==
    config.dryRun =>
        /\ stateFile' = stateFile
        /\ (pc # "down" /\ pc' # "down") => state' = state

\* C6: in dryRun mode no rebalance step is started, signAndExecuteTransaction is
\* never called (executeTransaction returns the dry-run digest after simulating),
\* the state file is never written and the in-memory BotState of a running bot
\* never changes; a trigger leaves the start alert and nothing else.
C6_DryRunIsInert == [](C6_Inv) /\ [][C6_Step]_vars

\* A dry-run iteration that triggered, with a rebalance recorded by an earlier run.
C6_Witness ==
    /\ config.dryRun /\ iter.triggered /\ pc = "iterEnd"
    /\ state.totalRebalances = 1

C8_Inv ==
    (InLoop /\ iter.failed # None) =>
        /\ pc \in {"catch", "iterEnd"}
        /\ iter.started \subseteq UpTo(iter.failed[1])
        /\ StateUntouched
        /\ \A i \in DOMAIN iter.alerts : iter.alerts[i] # "rebalance_success"
        /\ pc = "iterEnd" =>
              /\ iter.alerts # <<>>
              /\ iter.alerts[Len(iter.alerts)] = "rebalance_failure"

C8_Step ==
    (InLoop /\ iter.failed # None) =>
        /\ pc' \in {"catch", "iterEnd", "endSleep", "down"}
        /\ stateFile' = stateFile
        /\ pc' # "down" => state' = state

\* C8: when a step of a rebalance has failed on every attempt of its retry budget,
\* no later step of that rebalance is started, the BotState in memory and in the
\* state file stays as the iteration found it, no success alert is sent, a failure
\* alert is sent, and the loop goes to its end-of-iteration sleep.
C8_StepFailureAbortsRebalance == [](C8_Inv) /\ [][C8_Step]_vars

\* remove-liquidity failed after a retry; the failure alert is out.
C8_Witness ==
    /\ pc = "iterEnd" /\ iter.failed = Some("remove")
    /\ tx.calls = 2
    /\ iter.alerts = <<"rebalance_start", "rebalance_failure">>

\* C9: in confirmed live mode executeTransaction calls signAndExecuteTransaction at
\* most maxRetries + 1 times for one operation; a returned digest is that of the
\* one successful attempt, which is the last call made; a failed attempt, thrown
\* or of non-success status, is followed by another while the budget lasts; what
\* is thrown is the error of attempt maxRetries, after maxRetries + 1 calls.
C9_BoundedRetries ==
    (config.loaded /\ ~config.dryRun /\ config.confirm) =>
        /\ tx.calls <= config.maxRetries + 1
        /\ pc \in {"txAttempt", "txBackoff"} =>
              /\ tx.op \notin iter.ok
              /\ tx.calls = tx.attempt + (IF pc = "txBackoff" THEN 1 ELSE 0)
              /\ tx.calls > 0 =>
                    \E kind \in {"failure_status", "throws"} :
                        tx.lastErr = Some(<<kind, tx.calls - 1>>)
        /\ tx.result # None =>
              /\ tx.result = Some(<<"digest", tx.op, tx.calls - 1>>)
              /\ tx.op \in iter.ok
        /\ tx.thrown # None =>
              /\ tx.calls = config.maxRetries + 1
              /\ tx.op \notin iter.ok
              /\ \E kind \in {"failure_status", "throws"} :
                    tx.thrown = Some(<<kind, config.maxRetries>>)

\* Both attempts of a budget of two failed; the status error of the second is thrown.
C9_Witness ==
    /\ ~config.dryRun /\ config.confirm /\ config.maxRetries = 1
    /\ tx.calls = 2 /\ tx.thrown = Some(<<"failure_status", 1>>)

\* C10: whenever runRebalance is entered and a lastRebalanceTime is recorded, in the
\* BotState in memory or in the state file a restart would load, at least
\* minIntervalSeconds have passed since that time.
C10_RateLimit ==
    pc = "collect" =>
        /\ state.lastRebalanceTime # None =>
              now >= state.lastRebalanceTime[1] + config.minIntervalSeconds * 1000
        /\ loadState(stateFile).lastRebalanceTime # None =>
              now >= loadState(stateFile).lastRebalanceTime[1]
                        + config.minIntervalSeconds * 1000

\* A rebalance starts when one is on record, the full interval of two seconds after it.
C10_Witness ==
    /\ pc = "collect" /\ state.lastRebalanceTime # None
    /\ config.minIntervalSeconds = 2
    /\ now = state.lastRebalanceTime[1] + 2000

\* The pending timer is due after the last second of the clock.
BeyondClock == wakeAt > MaxTime * 1000

C11_Caught ==
    pc = "catch" =>
        /\ pc' = "iterEnd"
        /\ iter'.alerts = Append(iter.alerts, "rebalance_failure")

\* C11: an error raised inside an iteration of the running loop (a failed fetch, an
\* invalid new range, a step failing after its retries, a failed saveState) is in
\* runLoop's catch; from there the failure alert is sent, the process goes on, and
\* after the interval sleep the next poll starts with fetchPoolState (or the timer
\* it sleeps on is due beyond the clock).
C11_ErrorsAreCaught ==
    /\ [][C11_Caught]_vars
    /\ (pc = "catch") ~> (pc = "fetchPool" \/ BeyondClock)

\* All steps were broadcast, saveState threw, and the catch has sent the failure alert.
C11_Witness ==
    /\ pc = "iterEnd" /\ {"collect", "remove", "add"} \subseteq iter.ok
    /\ stateFile = AbsentFile /\ state.totalRebalances = 1
    /\ iter.alerts = <<"rebalance_start", "rebalance_failure">>

\* C12: the totalRebalances the bot sees never decreases: while the bot runs it only
\* grows, by exactly 1 with each successful rebalance, and when the bot stops, the
\* value the next start will load from the state file is not below the value the
\* bot last saw.
C12_TotalRebalancesMonotone ==
    [][/\ (pc # "down" /\ pc' # "down") =>
              state'.totalRebalances >= state.totalRebalances
       /\ (pc = "update" /\ pc' = "iterEnd") =>
              state'.totalRebalances = state.totalRebalances + 1
       /\ (pc # "down" /\ pc' = "down") =>
              loadState(stateFile').totalRebalances >= state.totalRebalances]_vars

\* C13: whatever happens to the process, saveState included, what loadState returns
\* for the state file changes only by a completed saveState: a record on disk is
\* never lost or replaced by the defaults.
C13_CrashSafePersistence ==
    [][\/ loadState(stateFile') = loadState(stateFile)
       \/ pc = "update" /\ stateFile' = JsonFile(state')]_vars

\* C14 (as stated): whenever the lock file exists and names a launched process,
\* that process is alive.
C14_LockNamesLiveOwner ==
    \A pid \in lockFile : pid \in Pids => Alive(pid)

\* C14 (amended): the lock file comes to name a launched process that is not
\* alive only by a kill of that process (one that ends it without its shutdown
\* path); every other exit of an owner leaves no file naming it.
C14_LockNamesLiveOrKilledOwner ==
    [][\A pid \in lockFile' \cap Pids :
          lpc'[pid] = "dead" =>
              \/ pid \in lockFile /\ lpc[pid] = "dead"
              \/ lpc[pid] # "dead" /\ exitCode'[pid] = "killed"]_vars

\* One process has shut down on a signal and the other one holds the lock.
C14_Witness ==
    \E p \in Pids, q \in Pids :
        /\ p # q
        /\ exitCode[p] = "0" /\ touched[p]
        /\ lockFile = {q} /\ lpc[q] = "running"

Solo(p) == \A q \in Pids \ {p} : lpc[q] = "dead" /\ exitCode[q] = "none"

\* C16: a process that runs acquireLock alone, on a lock file naming a dead process,
\* goes from the probe to the unlink, deletes the stale file, writes its own pid and
\* enters the loop: acquireLock does not fail.
C16_StaleLockRecovery ==
    [][\A p \in Pids : Solo(p) =>
          /\ (lpc[p] \in {"exists", "read", "probe", "unlink", "write"} /\ lpc'[p] = "dead")
                => exitCode'[p] = "killed"
          /\ (lpc[p] = "probe" /\ lpc'[p] # "dead") => lpc'[p] \in {"probe", "unlink"}
          /\ (lpc[p] = "unlink" /\ lpc'[p] # "dead" /\ lpc'[p] # "unlink")
                => lockFile # {} /\ lockFile' = {} /\ lpc'[p] = "write"
          /\ (lpc[p] = "write" /\ lpc'[p] # "dead" /\ lpc'[p] # "write")
                => lockFile' = {p} /\ lpc'[p] = "running"]_vars

\* A process that found the stale file, has removed it and is about to write its pid.
C16_Witness ==
    \E p \in Pids :
        /\ Solo(p) /\ lpc[p] = "write" /\ lockFile = {}
        /\ touched[p] /\ readPid[p] = StalePid

\* C17: executeTransaction never calls signAndExecuteTransaction for a transaction
\* whose gas estimate exceeds config.gasBudget.
C17_NoBroadcastOverGasBudget ==
    [][tx'.calls > tx.calls => ~tx.gasOver]_vars

\* ---- The pure functions ----
Returned(fn) == call.fn = fn /\ ret # None

Multiple(tick, tickSpacing) == tick % tickSpacing = 0

ValidTick(tick, tickSpacing) ==
    Multiple(tick, tickSpacing) /\ tick >= MIN_TICK /\ tick <= MAX_TICK

\* C18: a decision evaluateStrategy returns has trigger price_out_of_range exactly
\* when currentTick is below tickLower or above tickUpper, otherwise drift_exceeded
\* exactly when the price is more than driftTriggerPct away from the price of the
\* range's centre tick, otherwise none; whatever rebalanceMode is.
C18_Triggers ==
    (Returned("evaluateStrategy") /\ ~ret[1].thrown) =>
        LET t == call.pool.currentTick
            pos == call.position
            d == call.pool.logPrice
                    - Scale * FloorDiv(pos.tickLower + pos.tickUpper + 1, 2)
            outside == t < pos.tickLower \/ t > pos.tickUpper
            drifted == d > LogDriftAbove \/ d <= LogDriftBelow
        IN /\ ret[1].trigger = "price_out_of_range" <=> outside
           /\ ret[1].trigger = "drift_exceeded" <=> ~outside /\ drifted
           /\ ret[1].trigger = "none" <=> ~outside /\ ~drifted

\* The current tick sits on the upper bound of the range while the price has
\* drifted just past the threshold: the trigger is the drift, not the range.
C18_Witness ==
    /\ Returned("evaluateStrategy")
    /\ call.pool.currentTick = call.position.tickUpper
    /\ call.position.tickLower = -call.position.tickUpper
    /\ call.pool.logPrice = LogDriftAbove + 1
    /\ call.rebalanceMode = "price_band"
    /\ ~ret[1].thrown
    /\ ret[1].trigger = "drift_exceeded"

\* C19: in a decision evaluateStrategy returns, shouldRebalance, a trigger other
\* than none, and the presence of both new ticks go together; new ticks that are
\* present are multiples of tickSpacing with newTickLower < newTickUpper.
C19_DecisionWellFormed ==
    (Returned("evaluateStrategy") /\ ~ret[1].thrown) =>
        LET dec == ret[1]
            both == dec.newTickLower # None /\ dec.newTickUpper # None
            either == dec.newTickLower # None \/ dec.newTickUpper # None
        IN /\ dec.shouldRebalance <=> dec.trigger # "none"
           /\ dec.shouldRebalance <=> both
           /\ either => both
           /\ both => /\ dec.newTickLower[1] < dec.newTickUpper[1]
                       /\ Multiple(dec.newTickLower[1], call.pool.tickSpacing)
                       /\ Multiple(dec.newTickUpper[1], call.pool.tickSpacing)

\* A position left behind by the price, in a pool of tick spacing 60: the decision
\* carries a new range around the price.
C19_Witness ==
    /\ Returned("evaluateStrategy")
    /\ call.pool.tickSpacing = 60
    /\ call.pool.currentTick > call.position.tickUpper
    /\ ~ret[1].thrown
    /\ ret[1].shouldRebalance
    /\ ret[1].newTickLower # None
    /\ ret[1].newTickLower[1] < 0
    /\ ret[1].newTickUpper[1] > 0

\* C20: what priceToTick returns, and each bound computeNewTickRange returns, is a
\* multiple of tickSpacing within [MIN_TICK, MAX_TICK].
C20_TicksAlignedAndClamped ==
    /\ Returned("priceToTick") => ValidTick(ret[1], call.tickSpacing)
    /\ (Returned("computeNewTickRange") /\ ~ret[1].thrown) =>
           /\ ValidTick(ret[1].tickLower, call.tickSpacing)
           /\ ValidTick(ret[1].tickUpper, call.tickSpacing)

\* A price beyond the largest tick, in a pool whose spacing does not divide
\* MAX_TICK: the result is the largest multiple below MAX_TICK.
C20_Witness ==
    /\ Returned("priceToTick")
    /\ call.logPrice > MAX_TICK * Scale
    /\ call.tickSpacing = 60
    /\ ret[1] < MAX_TICK
    /\ ret[1] + call.tickSpacing > MAX_TICK

\* ---- The tick range of a rebalance ----
\* C21: the range the loop works with has tickLower < tickUpper; when
\* computeNewTickRange throws inside an iteration, that iteration builds and
\* broadcasts no transaction, leaves the BotState and the state file as they were,
\* and goes through the catch block to its end without evaluating again.
C21_InvalidRangeEndsCycle ==
    /\ poll.decision.newTickLower # None =>
           poll.decision.newTickLower[1] < poll.decision.newTickUpper[1]
    /\ (InLoop /\ iter.rangeError) =>
           /\ pc \in {"catch", "iterEnd"}
           /\ ~iter.triggered
           /\ iter.started = {}
           /\ tx = NoTx
           /\ poll = NoPoll
           /\ StateUntouched

\* The failed evaluation was reported and the iteration is over.
C21_Witness ==
    /\ pc = "iterEnd"
    /\ iter.rangeError
    /\ iter.alerts = <<"rebalance_failure">>
    /\ state.totalRebalances = 1

\* ---- Loading the state ----
EmptyState ==
    [lastRebalanceTime |-> <<>>, lastPositionId |-> <<>>, lastTickLower |-> <<>>,
     lastTickUpper |-> <<>>, lastLiquidity |-> <<>>, totalRebalances |-> 0,
     lastTxDigest |-> <<>>]

Started == pc = "loopTop" /\ iter = NoIter /\ loopStart = 0 /\ wakeAt = 0

\* C22: a start of the bot always gets past loadState into the loop, with the
\* content of the state file when that is JSON, and with totalRebalances = 0 and
\* every other field empty when the file is absent, unreadable or not JSON.
C22_LoadStateNeverFails ==
    [][(pc = "down" /\ pc' # "down") =>
          /\ pc' = "loopTop"
          /\ stateFile' = stateFile
          /\ stateFile.kind \in {"absent", "unreadable", "corrupt"} => state' = EmptyState
          /\ stateFile.kind = "json" => state' = stateFile.content]_vars

\* The bot is at the top of its loop on a state file that a torn write left behind
\* (after a restart: a bot that went on after the failed write has recorded the
\* rebalance in memory).
C22_Witness ==
    /\ Started
    /\ stateFile.kind = "corrupt"
    /\ state = EmptyState

\* ---- Recording a rebalance ----
C23_Inv ==
    Returned("updateStateAfterRebalance") =>
        /\ ret[1].totalRebalances = call.state.totalRebalances + 1
        /\ ret[1].lastPositionId = <<call.positionId>>
        /\ ret[1].lastTickLower = <<call.tickLower>>
        /\ ret[1].lastTickUpper = <<call.tickUpper>>
        /\ ret[1].lastLiquidity = <<DecimalString(call.liquidity)>>
        /\ ret[1].lastTxDigest = <<call.txDigest>>
        /\ ret[1].lastRebalanceTime = <<call.time>>

C23_Step == call.fn = "updateStateAfterRebalance" => call'.state = call.state

\* C23: updateStateAfterRebalance returns a state with totalRebalances one above
\* the input's, the position id, ticks, liquidity (as decimal text) and digest of
\* its arguments and the current time, and leaves its input state as it was.
C23_UpdateRecordsRebalance == [](C23_Inv) /\ [][C23_Step]_vars

\* One rebalance recorded on the default state.
C23_Witness ==
    /\ Returned("updateStateAfterRebalance")
    /\ call.state = EmptyState
    /\ call.positionId = "0xnew"
    /\ ret[1].totalRebalances = 1
    /\ ret[1].lastPositionId = <<"0xnew">>

\* ---- The swap before add-liquidity ----
\* x = (bA - ratio * bB) / (1 + ratio * price) = SwapNum / SwapDen for the call at
\* hand, ratio = n / d and price = pn / pd.
SwapNum ==
    (call.balanceA * call.ratio[2] - call.ratio[1] * call.balanceB) * call.price[2]

SwapDen == call.ratio[2] * call.price[2] + call.ratio[1] * call.price[1]

\* The four cases in which no swap is due: no positive target ratio, nothing held,
\* holdings at the target ratio, |x| below 5% of bA + bB / price.
NoSwapDue ==
    \/ call.ratio[1] <= 0
    \/ call.balanceA + call.balanceB = 0
    \/ call.balanceA * call.ratio[2] = call.ratio[1] * call.balanceB
    \/ 20 * call.price[1] * Abs(SwapNum)
          < SwapDen * (call.balanceA * call.price[1] + call.balanceB * call.price[2])

OverweightA == call.balanceA * call.ratio[2] > call.ratio[1] * call.balanceB

\* The amount to swap is below one unit: x < 1 of token A, |x| * price < 1 of token B.
BelowOneUnit ==
    IF OverweightA THEN SwapNum < SwapDen
    ELSE Abs(SwapNum) * call.price[1] < SwapDen * call.price[2]

\* C24 as stated: computeSwapNeeded returns no swap in the four cases, and in every
\* other case a swap, A to B exactly when token A is overweight.
C24_SwapDirection ==
    Returned("computeSwapNeeded") =>
        /\ NoSwapDue => ret[1] = None
        /\ ~NoSwapDue => /\ ret[1] # None
                         /\ ret[1][1].swapAtoB <=> OverweightA

\* C24, amended: computeSwapNeeded returns no swap in the four cases and when the
\* amount to swap is below one unit of the token sold; in every other case it
\* returns a swap, A to B exactly when token A is overweight.
C24_SwapDirectionOfWholeUnits ==
    Returned("computeSwapNeeded") =>
        /\ (NoSwapDue \/ BelowOneUnit) => ret[1] = None
        /\ ~(NoSwapDue \/ BelowOneUnit) =>
              /\ ret[1] # None
              /\ ret[1][1].swapAtoB <=> OverweightA
              /\ ret[1][1].swapAmount >= 1

\* Token B is overweight by more than the tolerance: a swap of B for A.
C24_Witness ==
    /\ Returned("computeSwapNeeded")
    /\ call.balanceA = 9 /\ call.balanceB = 100
    /\ call.ratio = <<1, 1>> /\ call.price = <<1, 1>>
    /\ ret[1] # None
    /\ ~ret[1][1].swapAtoB
    /\ ret[1][1].swapAmount = 45

\* ---- The token amounts of a position ----
IsZero(amount) == amount[1] = 0 /\ amount[2] > 0
NonNegative(amount) == amount[1] >= 0 /\ amount[2] > 0

\* C25: with the current price at or below the price of tickLower
\* computeTokenAmounts returns amountB = 0 and amountA >= 0, at or above the price
\* of tickUpper amountA = 0 and amountB >= 0, and in between both amounts >= 0.
C25_TokenAmounts ==
    Returned("computeTokenAmounts") =>
        LET atOrBelow == call.sqrtCurrent <= SqrtPriceAt(call.tickLower)
            atOrAbove == call.sqrtCurrent >= SqrtPriceAt(call.tickUpper)
        IN /\ atOrBelow => IsZero(ret[1].amountB) /\ NonNegative(ret[1].amountA)
           /\ atOrAbove => IsZero(ret[1].amountA) /\ NonNegative(ret[1].amountB)
           /\ (~atOrBelow /\ ~atOrAbove) =>
                  NonNegative(ret[1].amountA) /\ NonNegative(ret[1].amountB)

\* The price is on the upper bound of the range: all of the liquidity is token B.
C25_Witness ==
    /\ Returned("computeTokenAmounts")
    /\ call.liquidity = 100
    /\ call.sqrtCurrent = SqrtPriceAt(call.tickUpper)
    /\ IsZero(ret[1].amountA)
    /\ ret[1].amountB[1] > 0

\* ---- The retry delay ----
Doubled(baseMs, attempt) == baseMs * (2 ^ attempt)

\* C26: backoffMs(attempt, baseMs, maxMs) is the smaller of baseMs * 2^attempt and
\* maxMs; with the defaults that is 1000, 2000, 4000 for attempts 0, 1, 2, never
\* less than for the attempt before and never more than 30000.
C26_Backoff ==
    Returned("backoffMs") =>
        /\ ret[1] = IF Doubled(call.baseMs, call.attempt) <= call.maxMs
                    THEN Doubled(call.baseMs, call.attempt)
                    ELSE call.maxMs
        /\ (call.baseMs = 1000 /\ call.maxMs = 30000) =>
              /\ call.attempt = 0 => ret[1] = 1000
              /\ call.attempt = 1 => ret[1] = 2000
              /\ call.attempt = 2 => ret[1] = 4000
              /\ ret[1] <= 30000
              /\ call.attempt > 0 =>
                    \/ ret[1] >= Doubled(call.baseMs, call.attempt - 1)
                    \/ ret[1] = 30000

\* The fifth retry with the defaults: 32000 ms is capped at 30000.
C26_Witness ==
    /\ Returned("backoffMs")
    /\ call.attempt = 5
    /\ call.baseMs = 1000 /\ call.maxMs = 30000
    /\ ret[1] = 30000

\* ---- Configuration precedence ----
\* C27: a key the environment sets resolves to the environment's value whatever
\* config.yaml says, and a key only config.yaml sets resolves to the file's value;
\* for DRY_RUN, CONFIRM and MAX_RETRIES.
C27_EnvOverFileOverDefault ==
    (cfgPc = "loaded" /\ config.loaded) =>
        /\ env.DRY_RUN # Unset => config.dryRun = (env.DRY_RUN = "true")
        /\ (env.DRY_RUN = Unset /\ launch.file.dryRun # Unset) =>
              config.dryRun = (launch.file.dryRun = "true")
        /\ env.CONFIRM # Unset => config.confirm = (env.CONFIRM = "true")
        /\ (env.CONFIRM = Unset /\ launch.file.confirm # Unset) =>
              config.confirm = (launch.file.confirm = "true")
        /\ env.MAX_RETRIES = "0" => config.maxRetries = 0
        /\ env.MAX_RETRIES = "2" => config.maxRetries = 2
        /\ (env.MAX_RETRIES = Unset /\ launch.file.maxRetries # <<>>) =>
              config.maxRetries = launch.file.maxRetries[1]

\* ---- The width of the range ----
Width(range) == range.tickUpper - range.tickLower

BothReturned ==
    /\ Returned("computeNewTickRange twice")
    /\ ~ret[1][1].thrown /\ ~ret[1][2].thrown

\* C28 as stated: for the same price and tick spacing the wider of two bands
\* yields the strictly wider range.
C28_WiderBandStrictlyWider ==
    BothReturned => Width(ret[1][2]) > Width(ret[1][1])

\* C28, amended: for the same price and tick spacing the wider of two bands yields
\* a range that contains the range of the narrower one, so is at least as wide.
C28_WiderBandNotNarrower ==
    BothReturned =>
        /\ ret[1][2].tickLower <= ret[1][1].tickLower
        /\ ret[1][2].tickUpper >= ret[1][1].tickUpper
        /\ Width(ret[1][2]) >= Width(ret[1][1])

\* Bands of 0.5% and 3% at price 1 and tick spacing 1, as in the test: 101 ticks
\* against 601.
C28_Witness ==
    /\ BothReturned
    /\ call.logPrice = 0 /\ call.tickSpacing = 1
    /\ call.narrow = 5 /\ call.wide = 30
    /\ Width(ret[1][1]) = 101
    /\ Width(ret[1][2]) = 601

\* ---- The proposed range and the price ----
Proposed ==
    /\ Returned("evaluateStrategy")
    /\ ~ret[1].thrown
    /\ ret[1].shouldRebalance

\* The prices currentPrice * (1 - band/100) and currentPrice * (1 + band/100) lie
\* within the prices of the smallest and the largest multiple of tickSpacing among
\* the ticks, so that clampTick leaves the two bounds as they were rounded.
NotClamped ==
    LET spacing == call.pool.tickSpacing
    IN /\ call.pool.logPrice + LogLowerBand
             >= (-((-MIN_TICK) \div spacing)) * spacing * Scale
       /\ call.pool.logPrice + LogUpperBand <= (MAX_TICK \div spacing) * spacing * Scale

\* C29 as stated: the proposed range has the current price strictly inside it; and
\* when its bounds are not clamped, its lower price is at most currentPrice *
\* (1 - band/100) and its upper price at least currentPrice * (1 + band/100).
C29_RangeBracketsPrice ==
    Proposed =>
        /\ ret[1].newTickLower[1] * Scale < call.pool.logPrice
        /\ call.pool.logPrice < ret[1].newTickUpper[1] * Scale
        /\ NotClamped =>
              /\ ret[1].newTickLower[1] * Scale <= call.pool.logPrice + LogLowerBand
              /\ ret[1].newTickUpper[1] * Scale >= call.pool.logPrice + LogUpperBand

\* C29, amended: when the bounds of the proposed range are not clamped, its lower
\* price is at most currentPrice * (1 - band/100) and its upper price at least
\* currentPrice * (1 + band/100), so that the current price is strictly inside it.
C29_UnclampedRangeBracketsPrice ==
    (Proposed /\ NotClamped) =>
        /\ ret[1].newTickLower[1] * Scale <= call.pool.logPrice + LogLowerBand
        /\ ret[1].newTickUpper[1] * Scale >= call.pool.logPrice + LogUpperBand
        /\ ret[1].newTickLower[1] * Scale < call.pool.logPrice
        /\ call.pool.logPrice < ret[1].newTickUpper[1] * Scale

\* A drift trigger at a price just past the threshold, tick spacing 60: the range
\* [-120, 240] around tick 49.88.
C29_Witness ==
    /\ Proposed /\ NotClamped
    /\ ret[1].trigger = "drift_exceeded"
    /\ call.pool.logPrice = LogDriftAbove + 1
    /\ call.pool.tickSpacing = 60
    /\ ret[1].newTickLower = <<-120>>
    /\ ret[1].newTickUpper = <<240>>

\* ---- Alerts ----
Notified == Len(iter'.alerts) = Len(iter.alerts) + 1

AlertSent == iter'.alerts[Len(iter'.alerts)]

\* C30: whatever becomes of an alert (delivered, failed, no endpoint), the loop goes
\* on from the notify call the same way: after the start alert to the rebalance (or,
\* dry-run, to the end of the iteration), after the success alert to the end of the
\* iteration with the saved state in place, after the failure alert to the end of
\* the iteration; and the loop never terminates.
C30_Step ==
    Notified =>
        /\ Len(iter'.delivery) = Len(iter'.alerts)
        /\ AlertSent = "rebalance_start" =>
              /\ pc' = IF config.dryRun THEN "iterEnd" ELSE "collect"
              /\ state' = state /\ stateFile' = stateFile
        /\ AlertSent = "rebalance_success" =>
              /\ pc' = "iterEnd"
              /\ state'.totalRebalances = state.totalRebalances + 1
              /\ stateFile' = [kind |-> "json", content |-> state']
        /\ AlertSent = "rebalance_failure" =>
              /\ pc' = "iterEnd"
              /\ state' = state /\ stateFile' = stateFile

C30_NotifyNeverPropagates == [](pc \notin {"down", "threw"}) /\ [][C30_Step]_vars

\* The start alert was delivered, the success alert failed: the iteration ends with
\* the rebalance recorded in memory and on disk.
C30_Witness ==
    /\ pc = "iterEnd"
    /\ iter.alerts = <<"rebalance_start", "rebalance_success">>
    /\ iter.delivery = <<"delivered", "failed">>
    /\ state.totalRebalances = 1
    /\ stateFile = [kind |-> "json", content |-> state]

\* ---- Exit codes ----
\* A launch that fails validateWalletAddress / validateIds exits with 1 and has
\* neither touched the lock file nor polled nor called the signer.
StartupValidationFatal ==
    [][\A p \in Pids :
          (lpc[p] = "dead" /\ lpc'[p] = "dead" /\ exitCode'[p] # exitCode[p]) =>
              /\ exitCode'[p] = "1"
              /\ lockFile' = lockFile
              /\ ~touched'[p] /\ ~worked'[p]]_vars

\* C31: a launch with an invalid wallet address or pool id exits with a non-zero
\* code without acquiring the lock, polling or calling the signer; and a running
\* bot that handles SIGINT / SIGTERM exits with code 0.
C31_ExitCodes ==
    /\ StartupValidationFatal
    /\ [][\A p \in Pids :
             (lpc[p] \in {"release", "exit0"} /\ lpc'[p] = "dead"
                 /\ exitCode'[p] # "killed") => exitCode'[p] = "0"]_vars

\* C32: once a process has handled SIGINT / SIGTERM it begins no orchestrator step
\* again: from the handler's releaseLock on it performs no iteration of the loop
\* (poll, transaction, save, alert) and only goes on to exit.
C32_NoStepAfterShutdown ==
    [][\A p \in Pids :
          lpc[p] \in {"release", "exit0"} =>
              /\ lpc'[p] \in {"release", "exit0", "dead"}
              /\ worked'[p] = worked[p]
              /\ (lpc[p] = "exit0" => lpc'[p] # "release")]_vars

\* A process that has polled was signalled and its handler has released the lock.
C32_Witness ==
    \E p \in Pids :
        /\ lpc[p] = "exit0" /\ worked[p] /\ touched[p]
        /\ lockFile = {} /\ Solo(p)

\* ---- Backoff sleeps ----
\* C33: in confirmed live mode the backoff sleep number k + 1 of executeTransaction
\* follows failed attempt k and lasts backoffMs(k); attempt k + 1 begins after
\* k + 1 sleeps; and when all maxRetries + 1 attempts have failed, the error is
\* thrown after exactly maxRetries sleeps.
C33_SleepsBetweenAttempts ==
    (config.loaded /\ ~config.dryRun /\ config.confirm) =>
        /\ pc = "txBackoff" =>
              /\ tx.sleeps = tx.attempt + 1 /\ tx.calls = tx.attempt + 1
              /\ wakeAt <= now + backoffMs(tx.attempt, DefaultBaseMs, DefaultMaxMs)
        /\ pc = "txAttempt" => tx.sleeps = tx.attempt /\ tx.calls = tx.attempt
        /\ tx.thrown # None =>
              /\ tx.calls = config.maxRetries + 1
              /\ tx.sleeps = config.maxRetries

\* ---- Pace of the loop ----
Interval == config.minIntervalSeconds * 1000

\* C34 (as stated): consecutive polls are at least minIntervalSeconds apart.
C34_PollsApart ==
    (pace.poll # None /\ pace.prevPoll # None) =>
        pace.poll[1] >= pace.prevPoll[1] + Interval

\* C34 (amended): an iteration begins, and so polls, no earlier than
\* minIntervalSeconds after the iteration before it began, whatever that one did.
C34_IterationsApart ==
    /\ (pace.start # None /\ pace.prevStart # None) =>
           pace.start[1] >= pace.prevStart[1] + Interval
    /\ (pace.poll # None /\ pace.prevStart # None) =>
           /\ pace.start # None /\ pace.poll[1] >= pace.start[1]
           /\ pace.poll[1] >= pace.prevStart[1] + Interval

\* The iteration before slept on the rate limit before it polled; this one polls
\* exactly the interval after that one began, and sooner than the interval after
\* that one polled.
C34_Witness ==
    /\ pace.prevStart # None /\ pace.prevPoll # None /\ pace.poll # None
    /\ pace.prevPoll[1] > pace.prevStart[1]
    /\ pace.poll[1] = pace.prevStart[1] + Interval
    /\ pace.poll[1] < pace.prevPoll[1] + Interval
    /\ pc = "fetchPool"

\* ---- Order of the alerts ----
HasAlert(type) == \E i \in 1..Len(iter.alerts) : iter.alerts[i] = type

C35_Inv ==
    (config.loaded /\ ~config.dryRun) =>
        /\ iter.started # {} =>
              /\ iter.triggered
              /\ Len(iter.alerts) >= 1 /\ iter.alerts[1] = "rebalance_start"
        /\ HasAlert("rebalance_success") =>
              /\ stateFile = [kind |-> "json", content |-> state]
              /\ iter.before # None
              /\ state.totalRebalances = iter.before[1][1].totalRebalances + 1
        /\ (pc = "iterEnd" /\ iter.triggered) =>
              iter.alerts \in {<<"rebalance_start", "rebalance_success">>,
                               <<"rebalance_start", "rebalance_failure">>}

C35_Step ==
    (config.loaded /\ ~config.dryRun /\ Notified) =>
        /\ AlertSent = "rebalance_start" =>
              iter.alerts = <<>> /\ iter'.started = {} /\ tx'.calls = 0
        /\ AlertSent = "rebalance_success" =>
              /\ iter.alerts = <<"rebalance_start">>
              /\ stateFile' = [kind |-> "json", content |-> state']
        /\ AlertSent = "rebalance_failure" =>
              iter.alerts \in {<<>>, <<"rebalance_start">>}

\* C35: in live mode the start alert precedes the first step of the rebalance; the
\* success alert is sent when the updated state is in the state file; and a
\* triggered iteration ends with the start alert followed by exactly one of the
\* success alert and the failure alert.
C35_AlertOrder == [](C35_Inv) /\ [][C35_Step]_vars

\* A confirmed live rebalance went through all four steps and has sent its two alerts.
C35_Witness ==
    /\ ~config.dryRun /\ config.confirm
    /\ pc = "iterEnd" /\ iter.ok = Steps
    /\ iter.alerts = <<"rebalance_start", "rebalance_success">>
    /\ stateFile = [kind |-> "json", content |-> state]

\* ---- The guard over the working lifetime ----
\* acquireLock has returned to the process.
Acquired(p) == lpc[p] \in {"running", "release", "releaseF", "exit0", "exit1"}

\* C36: a process polls or calls the signer only once its acquireLock has returned
\* (it has written the lock file), and from then on it removes the lock file only
\* in the releaseLock of its shutdown handler or of the finally block, by which it
\* exits.
C36_GuardHeldWhileWorking ==
    [][\A p \in Pids :
          /\ (worked'[p] /\ ~worked[p]) =>
                /\ lpc[p] = "running" /\ lpc'[p] = "running" /\ touched[p]
                /\ lockFile' = lockFile
          /\ (Acquired(p) /\ lpc'[p] # lpc[p] /\ lockFile' # lockFile) =>
                /\ lpc[p] \in {"release", "releaseF"}
                /\ lpc'[p] \in {"exit0", "exit1"}
          /\ (~Acquired(p) /\ Acquired(p)') =>
                lpc[p] = "write" /\ lpc'[p] = "running" /\ lockFile' = {p}]_vars

\* A process alone has acquired the lock and polled; the lock file names it.
C36_Witness ==
    \E p \in Pids :
        /\ Solo(p) /\ lpc[p] = "running" /\ worked[p]
        /\ lockFile = {p} /\ ~sawLive[p]

\* ---- The strategy after a rebalance ----
\* C37: for a pool whose current tick is that of its price, evaluateStrategy on
\* the position opened on the range it has just proposed, at the same price and
\* tick, returns trigger none.
C37_RebalanceIsFixpoint ==
    (Returned("evaluateStrategy twice") /\ ret[1][2] # None) =>
        /\ ~ret[1][2][1].thrown
        /\ ret[1][2][1].trigger = "none"

\* The same away from the tick bounds and for tick spacings up to 60.
FixpointForSmallSpacings ==
    (/\ Returned("evaluateStrategy twice") /\ ret[1][2] # None
     /\ call.tickSpacing <= 60
     /\ ret[1][1].newTickLower[1] > MIN_TICK + 60
     /\ ret[1][1].newTickUpper[1] < MAX_TICK - 60) =>
        ret[1][2][1].trigger = "none"

\* ---- Memory and disk ----
\* C38: whenever the loop is at its sleep between two iterations, the in-memory
\* BotState is what loadState would read from the state file.
C38_MemoryMatchesDisk ==
    pc = "endSleep" => state = loadState(stateFile)

\* Memory and disk come apart only where saveState throws, or at a kill.
MemoryLeavesDiskOnlyWhenSaveThrows ==
    [][(state = loadState(stateFile) /\ state' # loadState(stateFile'))
          => (pc = "update" /\ pc' = "catch") \/ pc' = "down"]_vars

\* ---- The size of the swap ----
\* C39: a swap returned by computeSwapNeeded for a positive target ratio has a
\* positive amount, no greater than the balance of the token it sells.
C39_SwapWithinBalance ==
    (Returned("computeSwapNeeded") /\ ret[1] # None /\ call.ratio[1] > 0) =>
        /\ ret[1][1].swapAmount > 0
        /\ ret[1][1].swapAmount <=
              (IF ret[1][1].swapAtoB THEN call.balanceA ELSE call.balanceB)

\* The same for balances that Number converts without loss.
SwapWithinExactBalance ==
    (/\ Returned("computeSwapNeeded") /\ ret[1] # None /\ call.ratio[1] > 0
     /\ Number(call.balanceA) = call.balanceA
     /\ Number(call.balanceB) = call.balanceB) =>
        /\ ret[1][1].swapAmount > 0
        /\ ret[1][1].swapAmount <=
              (IF ret[1][1].swapAtoB THEN call.balanceA ELSE call.balanceB)

=============================================================================
